---- MODULE Spec2Model ----
(***************************************************************************)
(* Model of the NIKSS control-plane library: pipeline lifecycle            *)
(* (nikss_pipeline_load / unload / exists), port attachment                *)
(* (nikss_pipeline_add_port / del_port), port enumeration and object       *)
(* enumeration.  Kernel and libbpf calls are the environment: where the    *)
(* code branches on their result, the result is chosen nondeterministically*)
(* from the outcomes the call can produce.                                 *)
(***************************************************************************)
EXTENDS Integers, Sequences, FiniteSets, TLC

(* ------------------------------------------------------------------ *)
(* Bounds of the model                                                *)
(* ------------------------------------------------------------------ *)

\* number of network interfaces of the system (if_nameindex), indexes 1..MaxIf
MaxIf == 3
\* max_entries of the pipeline's DEVMAP (read from the kernel by update_map_info)
DevmapCap == 2
\* number of attach/detach operations (add_port, del_port, attaches by other
\* pipelines) of a run
MaxOps == 2
\* number of maps of a BPF object given to nikss_pipeline_load
MaxMaps == 2
\* number of maps pinned in the maps directory read by the object enumerator
MaxDir == 2
\* number of nodes of the type graph (btf__get_nr_types)
MaxTypes == 3

(* ------------------------------------------------------------------ *)
(* errno values used by the code                                      *)
(* ------------------------------------------------------------------ *)

NO_ERROR == 0
EPERM == 1
ENOENT == 2
EEXIST == 17
ENODEV == 19
EINVAL == 22
ENODATA == 61
EOPNOTSUPP == 95

(* ------------------------------------------------------------------ *)
(* C strings: a name is the sequence of its characters                *)
(* ------------------------------------------------------------------ *)

\* the pattern occurs in s at position i (1-based)
MatchesAt(s, pat, i) ==
    /\ i >= 1
    /\ i + Len(pat) - 1 <= Len(s)
    /\ \A k \in 1..Len(pat) : s[i + k - 1] = pat[k]

\* strstr(s, pat): position of the first occurrence, 0 when there is none
StrStr(s, pat) ==
    LET hits == {i \in 1..(Len(s) + 1) : MatchesAt(s, pat, i)}
    IN IF hits = {} THEN 0 ELSE CHOOSE i \in hits : \A j \in hits : i <= j

\* strrchr(s, c): position of the last occurrence of c, 0 when there is none
StrRChr(s, c) ==
    LET hits == {i \in 1..Len(s) : s[i] = c}
    IN IF hits = {} THEN 0 ELSE CHOOSE i \in hits : \A j \in hits : j <= i

\* strncmp(s, prefix, strlen(prefix)) == 0
StartsWith(s, prefix) == MatchesAt(s, prefix, 1)

\* str_ends_with(s, suffix)
StrEndsWith(s, suffix) ==
    Len(suffix) <= Len(s) /\ MatchesAt(s, suffix, Len(s) - Len(suffix) + 1)

\* remove_suffix_from_str(s, suffix): the string left, s itself when it does
\* not end with the suffix
RemoveSuffix(s, suffix) ==
    IF StrEndsWith(s, suffix) THEN SubSeq(s, 1, Len(s) - Len(suffix)) ELSE s

Digits == <<"0", "1", "2", "3", "4", "5", "6", "7", "8", "9">>

DigitValue(c) == (CHOOSE k \in 1..Len(Digits) : Digits[k] = c) - 1

IsDigit(c) == \E k \in 1..Len(Digits) : Digits[k] = c

(* ------------------------------------------------------------------ *)
(* Port subsystem: static data                                        *)
(* ------------------------------------------------------------------ *)

Ifs == 1..MaxIf

\* program roles of bpf_defs.h, opened by name in the pipeline namespace
ProgNames == {"XDP_HELPER_PROG", "XDP_INGRESS_PROG", "XDP_EGRESS_PROG",
              "XDP_EGRESS_PROG_OPTIMIZED", "TC_INGRESS_PROG", "TC_EGRESS_PROG"}

\* auxiliary maps opened by add_port
PortMapNames == {"XDP_DEVMAP", "XDP_JUMP_TBL"}

\* kernel id of a pinned program of this pipeline (bpf_prog_info.id), nonzero
ProgId(name) ==
    CASE name = "XDP_HELPER_PROG" -> 1
      [] name = "XDP_INGRESS_PROG" -> 2
      [] name = "XDP_EGRESS_PROG" -> 3
      [] name = "XDP_EGRESS_PROG_OPTIMIZED" -> 4
      [] name = "TC_INGRESS_PROG" -> 5
      [] name = "TC_EGRESS_PROG" -> 6

\* id of an XDP program that belongs to some other pipeline
ForeignProgId == Cardinality(ProgNames) + 1

\* results of bpf_set_link_xdp_fd: 0 or a negative errno
SetLinkResults == {0, -EOPNOTSUPP, -EINVAL}

NoEntry == [ifindex |-> 0, prog |-> 0]

NoCall == [op |-> "none", ifindex |-> 0, isXDP |-> FALSE, prog |-> "none",
           attachRet |-> -1, warned |-> FALSE, slot |-> -1]

NoLast == [op |-> "none", ifindex |-> 0, ret |-> 0, path |-> "none",
           attachRet |-> -1, xdpRes |-> 0, hookTried |-> FALSE, hookErr |-> 0,
           warned |-> FALSE, slot |-> -1]

NoList == [active |-> FALSE, pos |-> 0, xdp_prog_id |-> 0, initRet |-> 0]

VARIABLES
    pc,         \* position of the single control thread
    ops,        \* number of operations started so far
    nsProgs,    \* programs pinned in the pipeline namespace
    nsMaps,     \* auxiliary maps pinned in the pipeline namespace
    xdp,        \* per interface: id of the attached XDP program, 0 if none
    hook,       \* per interface: the combined ingress+egress TC hook exists
    tcIn,       \* per interface: id of the attached TC ingress program
    tcEg,       \* per interface: id of the attached TC egress program
    devmap,     \* redirect table: slot -> entry
    jmptbl,     \* jump table, single slot 0: program id or 0
    call,       \* locals of the operation in progress
    last,       \* outcome of the last finished operation
    attempts,   \* bpf_set_link_xdp_fd attach calls of the current/last attach
    fds,        \* handles opened by the current/last operation, still open
    devOrder,   \* interfaces in order of their latest successful devmap update
    ifHist,     \* per interface: "added" after a successful add_port,
                \* "removed" after a successful del_port that followed it,
                \* "none" at the start and after anything else
    list,       \* nikss_port_list_t
    visits,     \* interfaces read by the current port iteration
    yielded,    \* ports returned by the current port iteration
    nsDir,      \* the pipeline directory exists
    obj,        \* the BPF object of the load in progress
    idx,        \* position of the load's current loop in the object
    cret,       \* the variable ret of nikss_pipeline_load
    lret,       \* value returned by the last load or unload
    autoPins,   \* maps of the object still pinned where libbpf put them
    wired,      \* entries of the index tables: table, id, partition map
    trace,      \* steps taken by the load or unload in progress, in order
    todo,       \* entries the tree walk of the unload has not visited yet
    dirents,    \* entries of the maps directory read by the enumerator
    objlist,    \* nikss_pipeline_objects_list_t
    objseen,    \* directory entries read by the current enumeration
    objout,     \* objects returned by the current enumeration
    btf,        \* struct btf: the type nodes, ids 1..Len(btf)
    bcall       \* the last call into the type graph and what it returned

portVars == <<nsProgs, nsMaps, xdp, hook, tcIn, tcEg, devmap, jmptbl, call,
              last, attempts, fds, devOrder, ifHist, list, visits, yielded>>

lifeVars == <<nsDir, obj, idx, cret, lret, autoPins, wired, trace, todo>>

objVars == <<dirents, objlist, objseen, objout>>

btfVars == <<btf, bcall>>

vars == <<pc, ops, portVars, lifeVars, objVars, btfVars>>

NoObj == [progs |-> <<>>, maps |-> <<>>]

NoObjList == [active |-> FALSE, initRet |-> 0]

\* no load or unload is in progress
IdleLife ==
    /\ obj = NoObj
    /\ idx = 0
    /\ cret = 0
    /\ lret = 0
    /\ autoPins = {}
    /\ wired = {}
    /\ trace = <<>>
    /\ todo = {}

\* md before a lookup has written it
NoMd == [index |-> -1, effective_type_id |-> 0, bit_offset |-> -1]

NoBCall == [fn |-> "none", hasBtf |-> TRUE, type_id |-> 0, name |-> "", index |-> 0,
            ret |-> 0, md |-> NoMd, steps |-> 0]

\* no type graph is loaded
IdleBtf ==
    /\ btf = <<>>
    /\ bcall = NoBCall

\* no enumeration of objects is in progress
IdleObj ==
    /\ dirents = {}
    /\ objlist = NoObjList
    /\ objseen = {}
    /\ objout = {}

(* ------------------------------------------------------------------ *)
(* Port subsystem: helpers                                            *)
(* ------------------------------------------------------------------ *)

\* open_prog_by_name: bpf_obj_get on the pinned file, fd >= 0 iff it exists
ProgExists(name) == name \in nsProgs

\* variant: the flavor is taken from the presence of the XDP ingress program
IsXDP_ByIngress(progs) == "XDP_INGRESS_PROG" \in progs

\* nikss_pipeline_add_port: isXDP = access(XDP_HELPER_PROG pin, F_OK) != 0
IsXDP(progs) == ~("XDP_HELPER_PROG" \in progs)

\* variant: an index beyond the capacity is clamped to the last slot
DevmapIndex_Clamped(ifindex, cap) == IF ifindex >= cap THEN cap - 1 ELSE ifindex

\* update_prog_devmap: index = ifindex % max_entries
DevmapIndex(ifindex, cap) == ifindex % cap

\* variant: the egress program is put in the entry whether or not it was found
DevmapVal_AnyEgress(ifindex, egress_prog) ==
    [ifindex |-> ifindex, prog |-> ProgId("XDP_EGRESS_PROG")]

\* update_prog_devmap: devmap_val, the entry written for the interface; the
\* egress program (0: not found, bpf_prog.fd = -1) is installed only if found
DevmapVal(ifindex, egress_prog) ==
    [ifindex |-> ifindex, prog |-> IF egress_prog # 0 THEN egress_prog ELSE 0]

\* variant: the jump table is written whether or not the program was found
InstallsJump_Always(progs) == TRUE

\* xdp_port_add: eg_prog_fd = open_prog_by_name(XDP_EGRESS_PROG_OPTIMIZED);
\* the jump table is opened and written if (eg_prog_fd >= 0)
InstallsJump(progs) == "XDP_EGRESS_PROG_OPTIMIZED" \in progs

\* update_prog_devmap: the capacity warning
DevmapWarns(ifindex, cap) == ifindex > cap

\* remove i from a sequence of distinct interfaces and append it
MoveToEnd(seq, i) == Append(SelectSeq(seq, LAMBDA x : x # i), i)

\* an operation returns: record its outcome and go back to the caller
Finish(rec) ==
    /\ pc' = "ret"
    /\ last' = rec
    /\ call' = NoCall

LastOf(c, ret) ==
    [NoLast EXCEPT !.op = c.op, !.ifindex = c.ifindex, !.ret = ret,
                   !.path = IF c.isXDP THEN "xdp" ELSE "tc",
                   !.attachRet = c.attachRet,
                   !.warned = c.warned, !.slot = c.slot]

InitPort ==
    /\ pc = "idle"
    /\ ops = 0
    /\ nsProgs \in SUBSET ProgNames
    /\ nsMaps \in SUBSET PortMapNames
    /\ xdp = [i \in Ifs |-> 0]
    /\ hook = [i \in Ifs |-> FALSE]
    /\ tcIn = [i \in Ifs |-> 0]
    /\ tcEg = [i \in Ifs |-> 0]
    /\ devmap = [s \in 0..(DevmapCap - 1) |-> NoEntry]
    /\ jmptbl = 0
    /\ call = NoCall
    /\ last = NoLast
    /\ attempts = <<>>
    /\ fds = {}
    /\ devOrder = <<>>
    /\ ifHist = [i \in Ifs |-> "none"]
    /\ list = NoList
    /\ visits = <<>>
    /\ yielded = <<>>
    /\ nsDir = TRUE
    /\ IdleLife
    /\ IdleObj
    /\ IdleBtf

(* ------------------------------------------------------------------ *)
(* nikss_pipeline_add_port                                            *)
(* ------------------------------------------------------------------ *)

\* if_nametoindex(interface); 0 stands for a name that is no interface
AddPortBegin(ifindex) ==
    /\ pc = "idle"
    /\ ops < MaxOps
    /\ ops' = ops + 1
    /\ fds' = {}
    /\ attempts' = <<>>
    /\ LET isXDP == IsXDP(nsProgs)
           c == [NoCall EXCEPT !.op = "add_port", !.ifindex = ifindex,
                               !.isXDP = isXDP,
                               !.prog = IF isXDP THEN "XDP_INGRESS_PROG"
                                                 ELSE "XDP_HELPER_PROG"]
       IN IF ifindex = 0
          THEN Finish([LastOf(c, ENODEV) EXCEPT !.path = "none"])
          ELSE /\ pc' = "attach_open"
               /\ call' = c
               /\ UNCHANGED last
    /\ UNCHANGED <<nsProgs, nsMaps, xdp, hook, tcIn, tcEg, devmap, jmptbl,
                   devOrder, list, visits, yielded>>
    /\ UNCHANGED <<ifHist, lifeVars, objVars, btfVars>>

\* xdp_attach_prog_to_port: open the program
AttachOpen ==
    /\ pc = "attach_open"
    /\ UNCHANGED ops
    /\ IF ProgExists(call.prog)
       THEN /\ fds' = fds \cup {"xdp_prog"}
            /\ pc' = "attach_drv"
            /\ UNCHANGED <<call, last>>
       ELSE /\ Finish(LastOf([call EXCEPT !.attachRet = ENOENT], ENOENT))
            /\ UNCHANGED fds
    /\ UNCHANGED <<nsProgs, nsMaps, xdp, hook, tcIn, tcEg, devmap, jmptbl,
                   attempts, devOrder, list, visits, yielded>>
    /\ UNCHANGED <<ifHist, lifeVars, objVars, btfVars>>

\* the attach succeeded: xdp_port_add / tc_port_add close the fd and go on
AttachSucceeded ==
    /\ xdp' = [xdp EXCEPT ![call.ifindex] = ProgId(call.prog)]
    /\ call' = [call EXCEPT !.attachRet = NO_ERROR]
    /\ fds' = fds \ {"xdp_prog"}
    /\ pc' = IF call.isXDP THEN "xdp_devmap" ELSE "tc_hook"
    /\ ifHist' = [ifHist EXCEPT ![call.ifindex] = IF @ = "removed" THEN "none" ELSE @]
    /\ UNCHANGED last

\* the attach failed with -res: close the fd, return -res
AttachFailed(res) ==
    /\ fds' = fds \ {"xdp_prog"}
    /\ Finish(LastOf([call EXCEPT !.attachRet = -res], -res))
    /\ UNCHANGED <<xdp, ifHist>>

\* variant: every driver-mode failure is retried in generic mode
AttachFallsBack_AnyError(ret) == ret < 0

\* xdp_attach_prog_to_port: the driver-mode result after which the attach is
\* retried in generic mode
AttachFallsBack(ret) == ~(ret # -EOPNOTSUPP)

\* xdp_attach_prog_to_port: bpf_set_link_xdp_fd with XDP_FLAGS_DRV_MODE
AttachDrv ==
    /\ pc = "attach_drv"
    /\ UNCHANGED ops
    /\ \E res \in SetLinkResults :
         /\ attempts' = Append(attempts, [mode |-> "drv", res |-> res])
         /\ IF ~AttachFallsBack(res)
            THEN IF res < 0 THEN AttachFailed(res) ELSE AttachSucceeded
            ELSE /\ pc' = "attach_skb"
                 /\ UNCHANGED <<xdp, call, last, fds, ifHist>>
    /\ UNCHANGED <<nsProgs, nsMaps, hook, tcIn, tcEg, devmap, jmptbl,
                   devOrder, list, visits, yielded>>
    /\ UNCHANGED <<lifeVars, objVars, btfVars>>

\* xdp_attach_prog_to_port: bpf_set_link_xdp_fd with XDP_FLAGS_SKB_MODE
AttachSkb ==
    /\ pc = "attach_skb"
    /\ UNCHANGED ops
    /\ \E res \in SetLinkResults :
         /\ attempts' = Append(attempts, [mode |-> "skb", res |-> res])
         /\ IF res < 0 THEN AttachFailed(res) ELSE AttachSucceeded
    /\ UNCHANGED <<nsProgs, nsMaps, hook, tcIn, tcEg, devmap, jmptbl,
                   devOrder, list, visits, yielded>>
    /\ UNCHANGED <<lifeVars, objVars, btfVars>>

\* open_bpf_map(ctx, name, NULL, &md): ENOENT when the pin is absent; when
\* update_map_info fails its error is returned and md->fd stays open
OpenMapResult(name, infoOk) ==
    IF name \notin nsMaps THEN ENOENT
    ELSE IF ~infoOk THEN EINVAL
    ELSE NO_ERROR

\* xdp_port_add: open XDP_EGRESS_PROG (may be absent), open the DEVMAP,
\* update_prog_devmap, close both handles
XdpDevmap ==
    /\ pc = "xdp_devmap"
    /\ UNCHANGED ops
    /\ \E infoOk \in BOOLEAN, updOk \in BOOLEAN :
         LET eg == IF ProgExists("XDP_EGRESS_PROG")
                   THEN ProgId("XDP_EGRESS_PROG") ELSE 0
             ret == OpenMapResult("XDP_DEVMAP", infoOk)
             index == DevmapIndex(call.ifindex, DevmapCap)
             c == [call EXCEPT !.warned = DevmapWarns(call.ifindex, DevmapCap),
                               !.slot = index]
         IN IF ret # NO_ERROR
            THEN /\ fds' = IF ret = ENOENT THEN fds ELSE fds \cup {"devmap"}
                 /\ Finish(LastOf(call, ret))
                 /\ UNCHANGED <<devmap, devOrder>>
            ELSE IF updOk
            THEN /\ devmap' = [devmap EXCEPT
                                 ![index] = DevmapVal(call.ifindex, eg)]
                 /\ devOrder' = MoveToEnd(devOrder, call.ifindex)
                 /\ pc' = "xdp_jump"
                 /\ call' = c
                 /\ UNCHANGED <<last, fds>>
            ELSE /\ Finish(LastOf(c, EINVAL))
                 /\ UNCHANGED <<devmap, devOrder, fds>>
    /\ UNCHANGED <<nsProgs, nsMaps, xdp, hook, tcIn, tcEg, jmptbl, attempts,
                   list, visits, yielded>>
    /\ UNCHANGED <<ifHist, lifeVars, objVars, btfVars>>

\* xdp_port_add: when XDP_EGRESS_PROG_OPTIMIZED exists, install it at index 0
\* of XDP_JUMP_TBL
XdpJump ==
    /\ pc = "xdp_jump"
    /\ UNCHANGED ops
    /\ \E infoOk \in BOOLEAN, updOk \in BOOLEAN :
         IF ~InstallsJump(nsProgs)
         THEN /\ pc' = "tc_hook"
              /\ UNCHANGED <<jmptbl, call, last, fds>>
         ELSE LET ret == OpenMapResult("XDP_JUMP_TBL", infoOk)
              IN IF ret # NO_ERROR
                 THEN /\ fds' = IF ret = ENOENT THEN fds ELSE fds \cup {"jmpmap"}
                      /\ Finish(LastOf(call, ENOENT))
                      /\ UNCHANGED jmptbl
                 ELSE IF updOk
                 THEN /\ jmptbl' = ProgId("XDP_EGRESS_PROG_OPTIMIZED")
                      /\ pc' = "tc_hook"
                      /\ UNCHANGED <<call, last, fds>>
                 ELSE /\ Finish(LastOf(call, EINVAL))
                      /\ UNCHANGED <<jmptbl, fds>>
    /\ UNCHANGED <<nsProgs, nsMaps, xdp, hook, tcIn, tcEg, devmap, attempts,
                   devOrder, list, visits, yielded>>
    /\ UNCHANGED <<ifHist, lifeVars, objVars, btfVars>>

\* tc_create_hook: bpf_tc_hook_create fails with EEXIST on an existing hook
TcHook ==
    /\ pc = "tc_hook"
    /\ UNCHANGED ops
    /\ IF hook[call.ifindex]
       THEN /\ Finish(LastOf(call, EEXIST))
            /\ UNCHANGED hook
       ELSE \E ok \in BOOLEAN :
              IF ok
              THEN /\ hook' = [hook EXCEPT ![call.ifindex] = TRUE]
                   /\ pc' = "tc_ingress"
                   /\ UNCHANGED <<call, last>>
              ELSE /\ Finish(LastOf(call, EINVAL))
                   /\ UNCHANGED hook
    /\ UNCHANGED <<nsProgs, nsMaps, xdp, tcIn, tcEg, devmap, jmptbl, attempts,
                   fds, devOrder, list, visits, yielded>>
    /\ UNCHANGED <<ifHist, lifeVars, objVars, btfVars>>

\* variant: a failed ingress attach takes the XDP program off the interface
TcIngress_Detaches ==
    /\ pc = "tc_ingress"
    /\ UNCHANGED ops
    /\ IF ~ProgExists("TC_INGRESS_PROG")
       THEN /\ Finish(LastOf(call, ENOENT))
            /\ xdp' = [xdp EXCEPT ![call.ifindex] = 0]
            /\ UNCHANGED tcIn
       ELSE \E ok \in BOOLEAN :
              IF ok
              THEN /\ tcIn' = [tcIn EXCEPT ![call.ifindex] = ProgId("TC_INGRESS_PROG")]
                   /\ pc' = "tc_egress"
                   /\ UNCHANGED <<call, last, xdp>>
              ELSE /\ Finish(LastOf(call, EINVAL))
                   /\ xdp' = [xdp EXCEPT ![call.ifindex] = 0]
                   /\ UNCHANGED tcIn
    /\ UNCHANGED <<nsProgs, nsMaps, hook, tcEg, devmap, jmptbl, attempts,
                   fds, devOrder, list, visits, yielded>>
    /\ UNCHANGED <<ifHist, lifeVars, objVars, btfVars>>

\* tc_attach_prog(ctx, TC_INGRESS_PROG, ifindex, BPF_TC_INGRESS, interface)
TcIngress ==
    /\ pc = "tc_ingress"
    /\ UNCHANGED ops
    /\ IF ~ProgExists("TC_INGRESS_PROG")
       THEN /\ Finish(LastOf(call, ENOENT))
            /\ UNCHANGED tcIn
       ELSE \E ok \in BOOLEAN :
              IF ok
              THEN /\ tcIn' = [tcIn EXCEPT ![call.ifindex] = ProgId("TC_INGRESS_PROG")]
                   /\ pc' = "tc_egress"
                   /\ UNCHANGED <<call, last>>
              ELSE /\ Finish(LastOf(call, EINVAL))
                   /\ UNCHANGED tcIn
    /\ UNCHANGED <<nsProgs, nsMaps, xdp, hook, tcEg, devmap, jmptbl, attempts,
                   fds, devOrder, list, visits, yielded>>
    /\ UNCHANGED <<ifHist, lifeVars, objVars, btfVars>>

\* tc_attach_prog(ctx, TC_EGRESS_PROG, ifindex, BPF_TC_EGRESS, interface):
\* a missing egress program is skipped
TcEgress ==
    /\ pc = "tc_egress"
    /\ UNCHANGED ops
    /\ IF ~ProgExists("TC_EGRESS_PROG")
       THEN /\ Finish(LastOf(call, NO_ERROR))
            /\ UNCHANGED tcEg
       ELSE \E ok \in BOOLEAN :
              IF ok
              THEN /\ tcEg' = [tcEg EXCEPT ![call.ifindex] = ProgId("TC_EGRESS_PROG")]
                   /\ Finish(LastOf(call, NO_ERROR))
              ELSE /\ Finish(LastOf(call, EINVAL))
                   /\ UNCHANGED tcEg
    /\ UNCHANGED <<nsProgs, nsMaps, xdp, hook, tcIn, devmap, jmptbl, attempts,
                   fds, devOrder, list, visits, yielded>>
    /\ ifHist' = IF last'.ret = NO_ERROR
                 THEN [ifHist EXCEPT ![call.ifindex] = "added"]
                 ELSE ifHist
    /\ UNCHANGED <<lifeVars, objVars, btfVars>>

(* ------------------------------------------------------------------ *)
(* nikss_pipeline_del_port                                            *)
(* ------------------------------------------------------------------ *)

\* errno of bpf_tc_hook_destroy: ENOENT when the hook does not exist
HookDestroyResults(exists) ==
    IF exists THEN {NO_ERROR, EPERM} ELSE {ENOENT, EPERM}

\* nikss_pipeline_del_port: the value returned after bpf_tc_hook_destroy
\* ended with errno e (0: it succeeded)
DelPortHookRet(e) == IF e # NO_ERROR /\ e # ENOENT THEN e ELSE NO_ERROR

\* variant: a detach that is not supported is taken as a no-op
DelPortGoesOn_NotSuppIgnored(ret) == ret = 0 \/ ret = -EOPNOTSUPP

\* nikss_pipeline_del_port: whether the hook is destroyed after
\* bpf_set_link_xdp_fd(ifindex, -1, 0) returned ret
DelPortGoesOn(ret) == ret = 0

\* variant: only a program of this pipeline is taken off the interface
DetachedXdp_OwnOnly(x, ifindex) ==
    IF x[ifindex] = ForeignProgId THEN x ELSE [x EXCEPT ![ifindex] = 0]

\* bpf_set_link_xdp_fd(ifindex, -1, 0) succeeded: the interface carries no
\* XDP program, whichever it carried
DetachedXdp(x, ifindex) == [x EXCEPT ![ifindex] = 0]

\* nikss_pipeline_del_port(ctx, interface); ctx is not used
DelPort(ifindex) ==
    /\ pc = "idle"
    /\ ops < MaxOps
    /\ ops' = ops + 1
    /\ fds' = {}
    /\ LET c == [NoCall EXCEPT !.op = "del_port", !.ifindex = ifindex]
           base == [LastOf(c, NO_ERROR) EXCEPT !.path = "none"]
       IN IF ifindex = 0
          THEN /\ Finish([base EXCEPT !.ret = ENODEV])
               /\ UNCHANGED <<xdp, hook, tcIn, tcEg>>
          ELSE \E ret \in SetLinkResults :
                 /\ xdp' = IF ret = 0 THEN DetachedXdp(xdp, ifindex) ELSE xdp
                 /\ IF ~DelPortGoesOn(ret)
                    THEN /\ Finish([base EXCEPT !.ret = -ret, !.xdpRes = ret])
                         /\ UNCHANGED <<hook, tcIn, tcEg>>
                    ELSE \E e \in HookDestroyResults(hook[ifindex]) :
                           /\ IF e = NO_ERROR
                              THEN /\ hook' = [hook EXCEPT ![ifindex] = FALSE]
                                   /\ tcIn' = [tcIn EXCEPT ![ifindex] = 0]
                                   /\ tcEg' = [tcEg EXCEPT ![ifindex] = 0]
                              ELSE UNCHANGED <<hook, tcIn, tcEg>>
                           /\ Finish([base EXCEPT !.ret = DelPortHookRet(e),
                                                  !.xdpRes = ret,
                                                  !.hookTried = TRUE,
                                                  !.hookErr = e])
    /\ UNCHANGED <<nsProgs, nsMaps, devmap, jmptbl, attempts, devOrder, list,
                   visits, yielded>>
    /\ ifHist' = IF ifindex = 0 THEN ifHist
                 ELSE [ifHist EXCEPT ![ifindex] =
                          IF last'.ret = NO_ERROR /\ @ = "added" THEN "removed"
                                                                 ELSE "none"]
    /\ UNCHANGED <<lifeVars, objVars, btfVars>>

\* the caller takes the result of add_port / del_port
Return ==
    /\ pc = "ret"
    /\ pc' = "idle"
    /\ last' = NoLast
    /\ attempts' = <<>>
    /\ fds' = {}
    /\ UNCHANGED <<ops, nsProgs, nsMaps, xdp, hook, tcIn, tcEg, devmap, jmptbl,
                   call, devOrder, list, visits, yielded>>
    /\ UNCHANGED <<ifHist, lifeVars, objVars, btfVars>>

\* nikss_pipeline_is_TC_based with ctx != NULL: the helper is pinned and none
\* of the XDP ingress, egress and optimized egress programs is
nikss_pipeline_is_TC_based(progs) ==
    /\ "XDP_HELPER_PROG" \in progs
    /\ ~("XDP_INGRESS_PROG" \in progs)
    /\ ~("XDP_EGRESS_PROG" \in progs)
    /\ ~("XDP_EGRESS_PROG_OPTIMIZED" \in progs)

\* a call of nikss_pipeline_is_TC_based on the pipeline; the answer is kept
\* in last.path, "tc" for true and "xdp" for false
IsTcBased ==
    /\ pc = "idle"
    /\ Finish([NoLast EXCEPT !.op = "is_TC_based",
                             !.path = IF nikss_pipeline_is_TC_based(nsProgs)
                                      THEN "tc" ELSE "xdp"])
    /\ UNCHANGED <<ops, nsProgs, nsMaps, xdp, hook, tcIn, tcEg, devmap, jmptbl,
                   attempts, fds, devOrder, list, visits, yielded>>
    /\ UNCHANGED <<ifHist, lifeVars, objVars, btfVars>>

\* another pipeline's add_port on the interface: its XDP program and the hook
ForeignAttach(ifindex) ==
    /\ pc = "idle"
    /\ ops < MaxOps
    /\ ops' = ops + 1
    /\ xdp[ifindex] # ForeignProgId
    /\ xdp' = [xdp EXCEPT ![ifindex] = ForeignProgId]
    /\ hook' = [hook EXCEPT ![ifindex] = TRUE]
    /\ tcIn' = [tcIn EXCEPT ![ifindex] = ForeignProgId]
    /\ tcEg' = [tcEg EXCEPT ![ifindex] = 0]
    /\ UNCHANGED <<pc, nsProgs, nsMaps, devmap, jmptbl, call, last, attempts,
                   fds, devOrder, list, visits, yielded>>
    /\ ifHist' = [ifHist EXCEPT ![ifindex] = "none"]
    /\ UNCHANGED <<lifeVars, objVars, btfVars>>

(* ------------------------------------------------------------------ *)
(* nikss_port_list_init / get_next_port / free                        *)
(* ------------------------------------------------------------------ *)

\* variant: the XDP ingress program is tried before the helper
ListProg_IngressFirst(progs) ==
    IF "XDP_INGRESS_PROG" \in progs THEN "XDP_INGRESS_PROG" ELSE "XDP_HELPER_PROG"

\* nikss_port_list_init: the program whose id is recorded, XDP_HELPER_PROG
\* and, when it cannot be opened, XDP_INGRESS_PROG
ListProg(progs) ==
    IF "XDP_HELPER_PROG" \in progs THEN "XDP_HELPER_PROG" ELSE "XDP_INGRESS_PROG"

\* nikss_port_list_init: open the program of the pipeline and record its id
PortListInit ==
    /\ pc = "idle"
    /\ UNCHANGED ops
    /\ fds' = {}
    /\ \E infoOk \in BOOLEAN :
         LET name == ListProg(nsProgs)
             ret == IF ~ProgExists(name) THEN ENOENT
                    ELSE IF ~infoOk THEN EINVAL ELSE NO_ERROR
         IN /\ list' = [active |-> TRUE, pos |-> 0, initRet |-> ret,
                        xdp_prog_id |-> IF ret = NO_ERROR THEN ProgId(name) ELSE 0]
            /\ UNCHANGED last
    /\ pc' = "listing"
    /\ visits' = <<>>
    /\ yielded' = <<>>
    /\ UNCHANGED <<nsProgs, nsMaps, xdp, hook, tcIn, tcEg, devmap, jmptbl,
                   call, attempts, devOrder>>
    /\ UNCHANGED <<ifHist, lifeVars, objVars, btfVars>>

\* variant: the read id is only compared, not tested for zero
PortMatches_NoZeroTest(ret, prog_id, recorded) == ret = 0 /\ prog_id = recorded

\* nikss_port_list_get_next_port: the test that ends the loop with a port
PortMatches(ret, prog_id, recorded) ==
    ~(ret # 0 \/ prog_id = 0) /\ prog_id = recorded

\* one iteration of the loop of nikss_port_list_get_next_port; the entry
\* after the last interface has if_index 0
PortListNext ==
    /\ pc = "listing"
    /\ UNCHANGED ops
    /\ LET pos == list.pos + 1
       IN IF pos > MaxIf
          THEN /\ list' = [list EXCEPT !.pos = 0]
               /\ pc' = "list_done"
               /\ UNCHANGED <<visits, yielded>>
          ELSE \E ret \in {0, -EINVAL} :
                 LET prog_id == IF ret = 0 THEN xdp[pos] ELSE 0
                 IN /\ list' = [list EXCEPT !.pos = pos]
                    /\ visits' = Append(visits, [ifindex |-> pos, ret |-> ret,
                                                 id |-> prog_id])
                    /\ yielded' = IF PortMatches(ret, prog_id, list.xdp_prog_id)
                                  THEN Append(yielded, pos) ELSE yielded
                    /\ UNCHANGED pc
    /\ UNCHANGED <<nsProgs, nsMaps, xdp, hook, tcIn, tcEg, devmap, jmptbl,
                   call, last, attempts, fds, devOrder>>
    /\ UNCHANGED <<ifHist, lifeVars, objVars, btfVars>>

PortListFree ==
    /\ pc = "list_done"
    /\ UNCHANGED ops
    /\ pc' = "idle"
    /\ list' = NoList
    /\ visits' = <<>>
    /\ yielded' = <<>>
    /\ UNCHANGED <<nsProgs, nsMaps, xdp, hook, tcIn, tcEg, devmap, jmptbl,
                   call, last, attempts, fds, devOrder>>
    /\ UNCHANGED <<ifHist, lifeVars, objVars, btfVars>>

NextPort ==
    \/ \E i \in Ifs \cup {0} : AddPortBegin(i)
    \/ AttachOpen
    \/ AttachDrv
    \/ AttachSkb
    \/ XdpDevmap
    \/ XdpJump
    \/ TcHook
    \/ TcIngress
    \/ TcEgress
    \/ \E i \in Ifs \cup {0} : DelPort(i)
    \/ Return
    \/ \E i \in Ifs : ForeignAttach(i)
    \/ IsTcBased

SpecPort == InitPort /\ [][NextPort]_vars

\* port enumeration, started in any state of the interfaces
InitList ==
    /\ pc = "idle"
    /\ ops = 0
    /\ nsProgs \in SUBSET {"XDP_HELPER_PROG", "XDP_INGRESS_PROG"}
    /\ nsMaps = {}
    /\ xdp \in [Ifs -> {0, ProgId("XDP_HELPER_PROG"), ProgId("XDP_INGRESS_PROG"),
                        ForeignProgId}]
    /\ hook = [i \in Ifs |-> FALSE]
    /\ tcIn = [i \in Ifs |-> 0]
    /\ tcEg = [i \in Ifs |-> 0]
    /\ devmap = [s \in 0..(DevmapCap - 1) |-> NoEntry]
    /\ jmptbl = 0
    /\ call = NoCall
    /\ last = NoLast
    /\ attempts = <<>>
    /\ fds = {}
    /\ devOrder = <<>>
    /\ ifHist = [i \in Ifs |-> "none"]
    /\ list = NoList
    /\ visits = <<>>
    /\ yielded = <<>>
    /\ nsDir = TRUE
    /\ IdleLife
    /\ IdleObj
    /\ IdleBtf

NextList ==
    \/ PortListInit
    \/ PortListNext
    \/ PortListFree

SpecList == InitList /\ [][NextList]_vars

\* namespaces of pipelines whose add_port can succeed: XDP-based (no helper)
\* and TC-based (helper present), with the TC ingress program both need
CycleProgs ==
    { {"XDP_INGRESS_PROG", "TC_INGRESS_PROG"},
      {"XDP_INGRESS_PROG", "XDP_EGRESS_PROG", "XDP_EGRESS_PROG_OPTIMIZED",
       "TC_INGRESS_PROG", "TC_EGRESS_PROG"},
      {"XDP_HELPER_PROG", "TC_INGRESS_PROG"},
      {"XDP_HELPER_PROG", "XDP_INGRESS_PROG", "TC_INGRESS_PROG"} }

\* attach, enumeration and detach of one pipeline, on interfaces that carry
\* nothing at the start
InitCycle ==
    /\ InitPort
    /\ nsProgs \in CycleProgs
    /\ nsMaps = PortMapNames

NextCycle ==
    \/ NextPort
    \/ NextList

SpecCycle == InitCycle /\ [][NextCycle]_vars

(* ================================================================== *)
(* Pipeline lifecycle: nikss_pipeline_load / unload / exists          *)
(* ================================================================== *)

\* section names of the init programs (bpf_defs.h)
TC_INIT_PROG == <<"c", "l", "a", "s", "s", "i", "f", "i", "e", "r", "/", "m", "a", "p", "-", "i", "n", "i", "t", "i", "a", "l", "i", "z", "e", "r">>
XDP_INIT_PROG == <<"x", "d", "p", "/", "m", "a", "p", "-", "i", "n", "i", "t", "i", "a", "l", "i", "z", "e">>

\* program lists of the objects given to nikss_pipeline_load
ProgLists ==
    { << <<"t", "c", "/", "i", "n", "g", "r", "e", "s", "s", "/", "p", "r", "o", "g">> >>,
      << <<"c", "l", "a", "s", "s", "i", "f", "i", "e", "r", "/", "t", "c", "-", "i", "n", "g", "r", "e", "s", "s">>, TC_INIT_PROG >>,
      << XDP_INIT_PROG, <<"x", "d", "p", "/", "i", "n", "g", "r", "e", "s", "s">> >> }

\* maps of the objects: name, and whether libbpf pinned the map on its own
\* when it loaded the object (bpf_map__is_pinned)
MapPool ==
    { [name |-> <<"t", "b", "l">>, pinned |-> TRUE],
      [name |-> <<"t", "_", "t", "u", "p", "l", "e", "s", "_", "m", "a", "p">>, pinned |-> FALSE],
      [name |-> <<"t", "_", "t", "u", "p", "l", "e", "_", "1">>, pinned |-> FALSE],
      [name |-> <<"t", "_", "t", "u", "p", "l", "e", "_", "x">>, pinned |-> FALSE],
      [name |-> <<"t", "_", "t", "u", "p", "l", "e", "_", "3", "x">>, pinned |-> FALSE],
      [name |-> <<"a", ".", "b", "s", "s">>, pinned |-> FALSE] }

\* lists of distinct maps, in any order
MapLists ==
    UNION { { q \in [1..n -> MapPool] : \A i, j \in 1..n : i # j => q[i] # q[j] }
            : n \in 0..MaxMaps }

Objects == [progs : ProgLists, maps : MapLists]

\* variant: only the first '/' is replaced
program_pin_name_FirstOnly(sec) ==
    [i \in 1..Len(sec) |-> IF i = StrStr(sec, <<"/">>) THEN "_" ELSE sec[i]]

\* program_pin_name: the section name with every '/' replaced by '_'
program_pin_name(sec) == [i \in 1..Len(sec) |-> IF sec[i] = "/" THEN "_" ELSE sec[i]]

\* strtol(elem, &end, 10) on a string without leading white space: the value
\* and the number of characters consumed (0: no conversion)
StrToL(elem) ==
    LET neg == Len(elem) >= 1 /\ elem[1] = "-"
        signed == Len(elem) >= 1 /\ elem[1] \in {"-", "+"}
        from == IF signed THEN 2 ELSE 1
        stops == {i \in from..(Len(elem) + 1) : i = Len(elem) + 1 \/ ~IsDigit(elem[i])}
        stop == CHOOSE i \in stops : \A j \in stops : i <= j
        Val[k \in (from - 1)..Len(elem)] ==
            IF k < from THEN 0 ELSE Val[k - 1] * 10 + DigitValue(elem[k])
    IN IF stop = from THEN [value |-> 0, used |-> 0]
       ELSE [value |-> IF neg THEN -Val[stop - 1] ELSE Val[stop - 1],
             used |-> stop - 1]

\* (uint32_t) of a long: the value modulo 2^32, as its two 16-bit halves
ToUint32(v) == [hi |-> (v \div 65536) % 65536, lo |-> v % 65536]

\* extract_tuple_id_from_tuple(tuple_name, &tuple_id) with tuple_id != NULL:
\* (uint32_t) strtol of the text after the last '_'; ENODATA when nothing
\* was converted
extract_tuple_id_from_tuple(tuple_name) ==
    LET elem == SubSeq(tuple_name, StrRChr(tuple_name, "_") + 1, Len(tuple_name))
        r == StrToL(elem)
    IN IF r.used = 0 THEN [ret |-> ENODATA, id |-> 0]
       ELSE [ret |-> NO_ERROR, id |-> ToUint32(r.value)]

TupleInfix == <<"_", "t", "u", "p", "l", "e", "_">>

\* join_tuple_to_map_if_tuple: name of the index table of a partition map
TuplesMapName(tuple_name) ==
    SubSeq(tuple_name, 1, StrStr(tuple_name, TupleInfix) - 1) \o <<"_", "t", "u", "p", "l", "e", "s", "_", "m", "a", "p">>

\* state of the interfaces and of the port operations, untouched by the
\* lifecycle operations
ifVars == <<ops, xdp, hook, tcIn, tcEg, devmap, jmptbl, call, last, attempts,
            devOrder, ifHist, list, visits, yielded>>

\* no port operation is in progress and nothing is attached
IdlePort ==
    /\ ops = 0
    /\ xdp = [i \in Ifs |-> 0]
    /\ hook = [i \in Ifs |-> FALSE]
    /\ tcIn = [i \in Ifs |-> 0]
    /\ tcEg = [i \in Ifs |-> 0]
    /\ devmap = [s \in 0..(DevmapCap - 1) |-> NoEntry]
    /\ jmptbl = 0
    /\ call = NoCall
    /\ last = NoLast
    /\ attempts = <<>>
    /\ devOrder = <<>>
    /\ ifHist = [i \in Ifs |-> "none"]
    /\ list = NoList
    /\ visits = <<>>
    /\ yielded = <<>>

\* one step of a load or unload, as recorded in trace
Ev(kind, name, ok) == [kind |-> kind, name |-> name, ok |-> ok]

\* results of bpf_program__pin: 0, a failure before the parent directory was
\* made (-EPERM), a failure of the pin itself (-EINVAL, -EEXIST)
PinResults == {0, -EPERM, -EINVAL}

\* results of bpf_map__unpin, bpf_map__set_pin_path, bpf_map__pin
MapResults == {0, -EINVAL}

\* nikss_pipeline_exists: access(pipeline path, F_OK) == 0
nikss_pipeline_exists == nsDir

\* index of the first init program at or after position i, 0 if none
FirstInit(o, i) ==
    LET js == {j \in i..Len(o.progs) : o.progs[j] \in {TC_INIT_PROG, XDP_INIT_PROG}}
    IN IF js = {} THEN 0 ELSE CHOOSE j \in js : \A k \in js : j <= k

\* control moves to a phase of the load with ret = c; at err_close_obj the
\* function returns -ret
Goto(phase, i, c) ==
    /\ pc' = phase
    /\ idx' = i
    /\ cret' = c
    /\ lret' = IF phase = "done" THEN -c ELSE lret

\* third loop: the next init program, or the end of the function
ToInit(o, i, c) ==
    IF FirstInit(o, i) = 0 THEN Goto("done", 0, c) ELSE Goto("init", FirstInit(o, i), c)

\* second loop: the next map, or on to the third loop
ToMaps(o, i, c) ==
    IF i <= Len(o.maps) THEN Goto("map_pin", i, c) ELSE ToInit(o, 1, c)

\* first loop: the next program, or on to the second loop
ToProgs(o, i, c) ==
    IF i <= Len(o.progs) THEN Goto("pin_prog", i, c) ELSE ToMaps(o, 1, c)

InitLife ==
    /\ pc = "idle"
    /\ nsProgs = {}
    /\ nsMaps = {}
    /\ nsDir = FALSE
    /\ fds = {}
    /\ IdlePort
    /\ IdleLife
    /\ IdleObj
    /\ IdleBtf

\* nikss_pipeline_load, bpf_prog_load: parse the object file and load it into
\* the kernel; err is the errno of a failure, 0 for success.  Loads start on
\* a namespace that holds no pins.
LoadBegin(o, err) ==
    /\ pc = "idle"
    /\ nsProgs = {}
    /\ nsMaps = {}
    /\ fds' = {}
    /\ trace' = <<Ev("load", <<>>, err = 0)>>
    /\ IF err # 0
       THEN /\ pc' = "done"
            /\ cret' = err
            /\ lret' = err
            /\ UNCHANGED <<obj, idx, autoPins>>
       ELSE /\ obj' = o
            /\ autoPins' = {o.maps[i].name : i \in {j \in 1..Len(o.maps) : o.maps[j].pinned}}
            /\ ToProgs(o, 1, 0)
    /\ UNCHANGED <<nsProgs, nsMaps, nsDir, wired, todo, ifVars, objVars, btfVars>>

\* variant: a failed pin does not end the load
PinFailed_Ignored(ret) == FALSE

\* first loop: if (ret < 0) goto err_close_obj
PinFailed(ret) == ret < 0

\* first loop body: pin one program under program_pin_name(section)
PinProg(res) ==
    /\ pc = "pin_prog"
    /\ LET name == program_pin_name(obj.progs[idx])
           ret == IF res = 0 /\ name \in nsProgs THEN -EEXIST ELSE res
       IN /\ trace' = Append(trace, Ev("pin_prog", name, ret = 0))
          /\ nsDir' = (nsDir \/ ret # -EPERM)
          /\ IF PinFailed(ret)
             THEN /\ Goto("done", 0, ret)
                  /\ UNCHANGED nsProgs
             ELSE /\ nsProgs' = nsProgs \cup {name}
                  /\ ToProgs(obj, idx + 1, ret)
    /\ UNCHANGED <<obj, nsMaps, autoPins, wired, todo, fds, ifVars, objVars, btfVars>>

\* second loop body up to bpf_map__pin: drop the old pin, skip a dotted
\* name, set the pin path, pin the map
MapPin(unpinRes, setRes, pinRes) ==
    /\ pc = "map_pin"
    /\ LET name == obj.maps[idx].name
           isPinned == name \in autoPins
           unpinEv == IF isPinned THEN <<Ev("unpin", name, unpinRes = 0)>> ELSE <<>>
           ret1 == IF isPinned THEN unpinRes ELSE cret
           pinRet == IF pinRes = 0 /\ name \in nsMaps THEN -EEXIST ELSE pinRes
       IN IF isPinned /\ unpinRes # 0
          THEN /\ trace' = trace \o unpinEv
               /\ Goto("done", 0, unpinRes)
               /\ UNCHANGED <<autoPins, nsMaps>>
          ELSE /\ autoPins' = autoPins \ {name}
               /\ IF StrStr(name, <<".">>) # 0
                  THEN /\ trace' = trace \o unpinEv \o <<Ev("skip", name, TRUE)>>
                       /\ ToMaps(obj, idx + 1, ret1)
                       /\ UNCHANGED nsMaps
                  ELSE IF setRes # 0
                  THEN /\ trace' = trace \o unpinEv \o <<Ev("set_pin_path", name, FALSE)>>
                       /\ Goto("done", 0, setRes)
                       /\ UNCHANGED nsMaps
                  ELSE IF pinRet # 0
                  THEN /\ trace' = trace \o unpinEv \o <<Ev("pin_map", name, FALSE)>>
                       /\ Goto("done", 0, pinRet)
                       /\ UNCHANGED nsMaps
                  ELSE /\ trace' = trace \o unpinEv \o <<Ev("pin_map", name, TRUE)>>
                       /\ nsMaps' = nsMaps \cup {name}
                       /\ Goto("map_join", idx, pinRet)
    /\ UNCHANGED <<obj, nsProgs, nsDir, wired, todo, fds, ifVars, objVars, btfVars>>

\* join_tuple_to_map_if_tuple: the result of bpf_map_update_elem is printed
\* and the function returns NO_ERROR
JoinUpdateRet(updRes) == NO_ERROR

\* join_tuple_to_map_if_tuple(ctx, tuple_name): its return value, the handles
\* it leaves open, the entry it writes and the steps it takes
join_tuple_to_map_if_tuple(tuple_name, infoOk1, infoOk2, updRes) ==
    IF StrStr(tuple_name, TupleInfix) = 0
    THEN [ret |-> NO_ERROR, open |-> {}, entry |-> {}, evs |-> <<>>]
    ELSE
    LET tm == TuplesMapName(tuple_name)
        r1 == OpenMapResult(tm, infoOk1)
        x == extract_tuple_id_from_tuple(tuple_name)
        r2 == OpenMapResult(tuple_name, infoOk2)
    IN IF r1 # NO_ERROR
       THEN [ret |-> r1, open |-> IF r1 = ENOENT THEN {} ELSE {tm}, entry |-> {},
             evs |-> <<Ev("open_index", tm, FALSE)>>]
       ELSE IF x.ret # NO_ERROR
       THEN [ret |-> ENODATA, open |-> {tm}, entry |-> {},
             evs |-> <<Ev("open_index", tm, TRUE), Ev("tuple_id", tuple_name, FALSE)>>]
       ELSE IF r2 # NO_ERROR
       THEN [ret |-> r2, open |-> IF r2 = ENOENT THEN {tm} ELSE {tm, tuple_name},
             entry |-> {},
             evs |-> <<Ev("open_index", tm, TRUE), Ev("open_tuple", tuple_name, FALSE)>>]
       ELSE [ret |-> JoinUpdateRet(updRes), open |-> {tm, tuple_name},
             entry |-> IF updRes = 0
                       THEN {[table |-> tm, id |-> x.id, tuple |-> tuple_name]}
                       ELSE {},
             evs |-> <<Ev("open_index", tm, TRUE), Ev("open_tuple", tuple_name, TRUE),
                       Ev("wire", tuple_name, updRes = 0)>>]

\* second loop body after bpf_map__pin: join_tuple_to_map_if_tuple(map_name)
MapJoin(infoOk1, infoOk2, updRes) ==
    /\ pc = "map_join"
    /\ LET j == join_tuple_to_map_if_tuple(obj.maps[idx].name, infoOk1, infoOk2, updRes)
       IN /\ trace' = trace \o j.evs
          /\ fds' = fds \cup j.open
          /\ wired' = {w \in wired : \A e \in j.entry : w.table # e.table \/ w.id # e.id}
                      \cup j.entry
          /\ IF j.ret # 0
             THEN Goto("done", 0, j.ret)
             ELSE ToMaps(obj, idx + 1, j.ret)
    /\ UNCHANGED <<obj, nsProgs, nsMaps, nsDir, autoPins, todo, ifVars, objVars, btfVars>>

\* third loop body: do_initialize_maps on an init program; err is the errno
\* of a failed test run, 0 for success
InitProg(err) ==
    /\ pc = "init"
    /\ trace' = Append(trace, Ev("init", obj.progs[idx], err = 0))
    /\ IF err # 0
       THEN Goto("done", 0, -err)
       ELSE ToInit(obj, idx + 1, 0)
    /\ UNCHANGED <<obj, nsProgs, nsMaps, nsDir, autoPins, wired, todo, fds,
                   ifVars, objVars, btfVars>>

\* variant: the callback reports a failed removal to the tree walk
remove_file_StopsOnError(ok) == IF ok THEN 0 ELSE -1

\* remove_file: the nftw callback; the result of remove() is ignored
remove_file(ok) == 0

\* entries of the pipeline directory
Entries == ({"programs"} \X nsProgs) \cup ({"maps"} \X nsMaps)

\* nikss_pipeline_unload -> remove_pipeline_directory: nftw starts; it fails
\* at once with ENOENT when the directory does not exist
UnloadBegin ==
    /\ pc = "idle"
    /\ fds' = {}
    /\ IF ~nsDir
       THEN /\ pc' = "done"
            /\ lret' = ENOENT
            /\ trace' = <<Ev("unload", <<>>, FALSE)>>
            /\ UNCHANGED todo
       ELSE /\ pc' = "unload"
            /\ lret' = 0
            /\ trace' = <<Ev("unload", <<>>, TRUE)>>
            /\ todo' = Entries
    /\ UNCHANGED <<nsProgs, nsMaps, nsDir, obj, idx, cret, autoPins, wired,
                   ifVars, objVars, btfVars>>

\* nftw visits one file (FTW_DEPTH: files before their directory) and calls
\* remove_file on it; ok: remove() succeeds
UnloadRemove(e, ok) ==
    /\ pc = "unload"
    /\ e \in todo
    /\ trace' = Append(trace, Ev("remove", e, ok))
    /\ nsProgs' = IF ok /\ e[1] = "programs" THEN nsProgs \ {e[2]} ELSE nsProgs
    /\ nsMaps' = IF ok /\ e[1] = "maps" THEN nsMaps \ {e[2]} ELSE nsMaps
    /\ wired' = IF ok /\ e[1] = "maps" THEN {w \in wired : w.table # e[2]} ELSE wired
    /\ IF remove_file(ok) # 0
       THEN /\ pc' = "done"
            /\ lret' = EPERM
            /\ todo' = {}
       ELSE /\ todo' = todo \ {e}
            /\ UNCHANGED <<pc, lret>>
    /\ UNCHANGED <<nsDir, obj, idx, cret, autoPins, fds, ifVars, objVars, btfVars>>

\* nftw visits the directories last; ok: remove() of an empty directory
\* succeeds.  nftw returns 0 and remove_pipeline_directory NO_ERROR.
UnloadDir(ok) ==
    /\ pc = "unload"
    /\ todo = {}
    /\ LET removed == ok /\ Entries = {}
       IN /\ trace' = Append(trace, Ev("rmdir", <<>>, removed))
          /\ nsDir' = ~removed
          /\ IF remove_file(removed) # 0
             THEN lret' = EPERM
             ELSE lret' = NO_ERROR
    /\ pc' = "done"
    /\ UNCHANGED <<nsProgs, nsMaps, obj, idx, cret, autoPins, wired, todo, fds,
                   ifVars, objVars, btfVars>>

\* the load or unload has returned; bpf_object__close dropped the object
ReturnLife ==
    /\ pc = "done"
    /\ pc' = "idle"
    /\ obj' = NoObj
    /\ idx' = 0
    /\ cret' = 0
    /\ lret' = 0
    /\ autoPins' = {}
    /\ trace' = <<>>
    /\ todo' = {}
    /\ fds' = {}
    /\ UNCHANGED <<nsProgs, nsMaps, nsDir, wired, ifVars, objVars, btfVars>>

NextLife ==
    \/ \E o \in Objects, err \in {0, ENOENT} : LoadBegin(o, err)
    \/ \E res \in PinResults : PinProg(res)
    \/ \E unpinRes, setRes, pinRes \in MapResults : MapPin(unpinRes, setRes, pinRes)
    \/ \E infoOk1, infoOk2 \in BOOLEAN, updRes \in {0, -1} : MapJoin(infoOk1, infoOk2, updRes)
    \/ \E err \in {0, EINVAL} : InitProg(err)
    \/ UnloadBegin
    \/ \E e \in todo, ok \in BOOLEAN : UnloadRemove(e, ok)
    \/ \E ok \in BOOLEAN : UnloadDir(ok)
    \/ ReturnLife

SpecLife == InitLife /\ [][NextLife]_vars

(* ================================================================== *)
(* Object enumeration: nikss_pipeline_objects_list_init /             *)
(* get_next_object / free                                             *)
(* ================================================================== *)

\* is_valid_object_name: reserved_names
ReservedNames ==
    { <<"c", "l", "o", "n", "e", "_", "s", "e", "s", "s", "i", "o", "n", "_", "t", "b", "l">>, <<"c", "l", "o", "n", "e", "_", "s", "e", "s", "s", "i", "o", "n", "_", "t", "b", "l", "_", "i", "n", "n", "e", "r">>, <<"m", "u", "l", "t", "i", "c", "a", "s", "t", "_", "g", "r", "p", "_", "t", "b", "l">>,
      <<"m", "u", "l", "t", "i", "c", "a", "s", "t", "_", "g", "r", "p", "_", "t", "b", "l", "_", "i", "n", "n", "e", "r">>, <<"h", "d", "r", "_", "m", "d", "_", "c", "p", "u", "m", "a", "p">>, <<"x", "d", "p", "2", "t", "c", "_", "s", "h", "a", "r", "e", "d", "_", "m", "a", "p">>,
      <<"x", "d", "p", "2", "t", "c", "_", "c", "p", "u", "m", "a", "p">>, <<"t", "x", "_", "p", "o", "r", "t">>, <<"c", "r", "c", "_", "l", "o", "o", "k", "u", "p", "_", "t", "b", "l">> }

\* variant: no prefix is reserved
ReservedPrefixes_None == {}

\* is_valid_object_name: reserved_prefixes
ReservedPrefixes == { <<"e", "b", "p", "f", "_">> }

\* is_valid_object_name: suffixes
Suffixes ==
    << <<"_", "d", "e", "f", "a", "u", "l", "t", "A", "c", "t", "i", "o", "n">>, <<"_", "p", "r", "e", "f", "i", "x", "e", "s">>, <<"_", "t", "u", "p", "l", "e">>, <<"_", "t", "u", "p", "l", "e", "s", "_", "m", "a", "p">>,
       <<"_", "g", "r", "o", "u", "p", "s", "_", "i", "n", "n", "e", "r">>, <<"_", "g", "r", "o", "u", "p", "s">>, <<"_", "d", "e", "f", "a", "u", "l", "t", "A", "c", "t", "i", "o", "n", "G", "r", "o", "u", "p">>, <<"_", "a", "c", "t", "i", "o", "n", "s">> >>

\* variant: every recognized suffix is allowed and stripped
AllowedSuffixes_All == Suffixes

\* nikss_pipeline_objects_list_get_next_object: allowed_suffixes
AllowedSuffixes == << <<"_", "p", "r", "e", "f", "i", "x", "e", "s">>, <<"_", "a", "c", "t", "i", "o", "n", "s">> >>

\* variant: a name with the infix is rejected whether or not it has a suffix
InfixRejects_Always(has_suffix, name) == StrStr(name, TupleInfix) # 0

\* is_valid_object_name: a name without a known suffix is rejected when it
\* contains the ternary tuple infix
InfixRejects(has_suffix, name) == ~has_suffix /\ StrStr(name, TupleInfix) # 0

\* is_valid_object_name(list, name, allowed_suffixes, n); files: the entries
\* of the maps directory, which access() looks at
is_valid_object_name(files, name, allowed) ==
    LET has_suffix == \E i \in 1..Len(Suffixes) : StrEndsWith(name, Suffixes[i])
    IN IF name \in ReservedNames THEN FALSE
       ELSE IF \E p \in ReservedPrefixes : StartsWith(name, p) THEN FALSE
       ELSE IF InfixRejects(has_suffix, name) THEN FALSE
       ELSE IF ~has_suffix THEN TRUE
       ELSE IF \E i \in 1..Len(allowed) : StrEndsWith(name, allowed[i]) THEN TRUE
       ELSE \E i \in 1..Len(Suffixes) : (name \o Suffixes[i]) \in files

\* get_next_object: the name of the object, the entry's name without the
\* first allowed suffix it ends with
ObjectName(name, allowed) ==
    LET hits == {i \in 1..Len(allowed) : StrEndsWith(name, allowed[i])}
    IN IF hits = {} THEN name
       ELSE RemoveSuffix(name, allowed[CHOOSE i \in hits : \A j \in hits : i <= j])

\* names of the maps found in the maps directory of a pipeline
NamePool ==
    { <<"s", "i", "m", "p", "l", "e", "_", "t", "a", "b", "l", "e">>, <<"a", "c", "l", "_", "t", "a", "b", "l", "e", "_", "d", "e", "f", "a", "u", "l", "t", "A", "c", "t", "i", "o", "n">>, <<"r", "o", "u", "t", "e", "r", "_", "l", "p", "m", "_", "t", "u", "p", "l", "e", "_", "2">>,
      <<"e", "b", "p", "f", "_", "i", "n", "t", "e", "r", "n", "a", "l", "_", "x">>, <<"a", "c", "l", "_", "t", "a", "b", "l", "e", "_", "d", "e", "f", "a", "u", "l", "t", "A", "c", "t", "i", "o", "n", "_", "a", "c", "t", "i", "o", "n", "s">>,
      <<"t", "_", "p", "r", "e", "f", "i", "x", "e", "s">>, <<"t", "_", "a", "c", "t", "i", "o", "n", "s">>, <<"t", "_", "t", "u", "p", "l", "e">>, <<"t", "_", "t", "u", "p", "l", "e", "s", "_", "m", "a", "p">>, <<"t", "_", "g", "r", "o", "u", "p", "s">>,
      <<"t", "_", "g", "r", "o", "u", "p", "s", "_", "i", "n", "n", "e", "r">>, <<"t", "_", "d", "e", "f", "a", "u", "l", "t", "A", "c", "t", "i", "o", "n", "G", "r", "o", "u", "p">>, <<"t", "_", "g", "r", "o", "u", "p", "s", "_", "g", "r", "o", "u", "p", "s">>,
      <<"x", "_", "t", "u", "p", "l", "e", "_", "1">>, <<"x", "_", "t", "u", "p", "l", "e", "_", "1", "_", "p", "r", "e", "f", "i", "x", "e", "s">>, <<"x", "_", "t", "u", "p", "l", "e", "_", "a", "c", "t", "i", "o", "n", "s">>, <<"x", "_", "t", "u", "p", "l", "e", "_", "1", "_", "g", "r", "o", "u", "p", "s">>,
      <<"x", "_", "t", "u", "p", "l", "e", "_", "1", "_", "g", "r", "o", "u", "p", "s", "_", "g", "r", "o", "u", "p", "s">>, <<"e", "b", "p", "f", "_", "x", "_", "a", "c", "t", "i", "o", "n", "s">>, <<"t", "x", "_", "p", "o", "r", "t">>,
      <<"t", "x", "_", "p", "o", "r", "t", "_", "a", "c", "t", "i", "o", "n", "s">>, <<"c", "l", "o", "n", "e", "_", "s", "e", "s", "s", "i", "o", "n", "_", "t", "b", "l">> }

\* the entries readdir returns besides the pinned maps
DotEntries == { <<".">>, <<".", ".">> }

\* d_type of a directory entry: pinned maps are regular files
DType(name) == IF name \in DotEntries THEN "DT_DIR" ELSE "DT_REG"

InitObj ==
    /\ pc = "idle"
    /\ nsProgs = {}
    /\ nsDir \in BOOLEAN
    /\ nsMaps \in {d \in SUBSET NamePool : Cardinality(d) <= MaxDir /\ (~nsDir => d = {})}
    /\ fds = {}
    /\ IdlePort
    /\ IdleLife
    /\ IdleObj
    /\ IdleBtf

\* nikss_pipeline_objects_list_init: opendir of the maps directory
ObjectsListInit ==
    /\ pc = "idle"
    /\ ~objlist.active
    /\ IF nsDir
       THEN /\ objlist' = [active |-> TRUE, initRet |-> NO_ERROR]
            /\ dirents' = nsMaps \cup DotEntries
       ELSE /\ objlist' = [active |-> FALSE, initRet |-> ENOENT]
            /\ dirents' = {}
    /\ objseen' = {}
    /\ objout' = {}
    /\ UNCHANGED <<pc, nsProgs, nsMaps, fds, ifVars, lifeVars, btfVars>>

\* one iteration of the loop of get_next_object: readdir returns the entry e
ObjectsListNext(e) ==
    /\ pc = "idle"
    /\ objlist.active
    /\ e \in dirents
    /\ dirents' = dirents \ {e}
    /\ objseen' = objseen \cup {e}
    /\ objout' = IF DType(e) = "DT_REG" /\ is_valid_object_name(nsMaps, e, AllowedSuffixes)
                 THEN objout \cup {[entry |-> e, name |-> ObjectName(e, AllowedSuffixes)]}
                 ELSE objout
    /\ UNCHANGED <<pc, objlist, nsProgs, nsMaps, fds, ifVars, lifeVars, btfVars>>

\* nikss_pipeline_objects_list_free: closedir
ObjectsListFree ==
    /\ pc = "idle"
    /\ objlist.active \/ objlist.initRet # NO_ERROR
    /\ objlist' = NoObjList
    /\ dirents' = {}
    /\ objseen' = {}
    /\ objout' = {}
    /\ UNCHANGED <<pc, nsProgs, nsMaps, fds, ifVars, lifeVars, btfVars>>

NextObj ==
    \/ ObjectsListInit
    \/ \E e \in dirents : ObjectsListNext(e)
    \/ ObjectsListFree

SpecObj == InitObj /\ [][NextObj]_vars

(* ================================================================== *)
(* Type graph: follow_types, btf_get_type_by_id, member lookup,       *)
(* btf_get_type_size_by_id                                            *)
(* ================================================================== *)

\* a struct btf_type with what the code reads of it; members: the
\* struct btf_member array with each member's name, type and bit offset
BtfNode(kind, type, size, nelems, members) ==
    [kind |-> kind, type |-> type, size |-> size, nelems |-> nelems, members |-> members]

BtfMember(name, type, offset) == [name |-> name, type |-> type, offset |-> offset]

\* btf__type_by_id(btf, 0): the void type
VoidNode == BtfNode("VOID", 0, 0, 0, <<>>)

\* btf__type_by_id(btf, id) for an id the graph does not have: NULL
NullNode == BtfNode("NULL", 0, 0, 0, <<>>)

\* member arrays of the structs: one member, two members, two members of
\* the same name; the first member has the type of the last node
MemberLists ==
    { << BtfMember("a", MaxTypes, 0) >>,
      << BtfMember("a", MaxTypes, 0), BtfMember("b", 1, 32) >>,
      << BtfMember("a", MaxTypes, 0), BtfMember("a", 1, 32) >> }

\* the nodes id k can be: references of typedefs, pointers and arrays go to
\* lower ids, so the typedef/pointer chains of a graph are acyclic; a
\* pointer is to void or to the node before it
NodeShapes(k) ==
    { BtfNode("INT", 0, 4, 0, <<>>), BtfNode("ENUM", 0, 4, 0, <<>>) }
    \cup { BtfNode("PTR", t, 0, 0, <<>>) : t \in {0, k - 1} }
    \cup { BtfNode("TYPEDEF", t, 0, 0, <<>>) : t \in 0..(k - 1) }
    \cup { BtfNode("ARRAY", t, 0, 2, <<>>) : t \in 1..(k - 1) }
    \cup { BtfNode("STRUCT", 0, 8, 0, ms) : ms \in MemberLists }
    \cup { BtfNode("UNION", 0, 4, 0,
                   << BtfMember("a", MaxTypes, 0), BtfMember("b", 1, 0) >>) }

RECURSIVE GraphsOf(_)
\* the type graphs of n nodes
GraphsOf(n) ==
    IF n = 0 THEN { <<>> }
    ELSE { Append(g, s) : g \in GraphsOf(n - 1), s \in NodeShapes(n) }

\* btf__type_by_id
btf__type_by_id(g, id) ==
    IF id = 0 THEN VoidNode
    ELSE IF id \in 1..Len(g) THEN g[id]
    ELSE NullNode

\* variant: only typedefs are followed
FollowedKind_TypedefOnly(kind) == kind = "TYPEDEF"

\* follow_types: btf_is_typedef(type) || btf_is_ptr(type)
FollowedKind(kind) == kind \in {"TYPEDEF", "PTR"}

RECURSIVE FollowLoop(_, _, _)
\* follow_types: the while loop; n counts its iterations that replace the id
FollowLoop(g, type_id, n) ==
    IF FollowedKind(btf__type_by_id(g, type_id).kind)
    THEN FollowLoop(g, btf__type_by_id(g, type_id).type, n + 1)
    ELSE [id |-> type_id, steps |-> n]

\* follow_types(btf, type_id)
follow_types(g, type_id) ==
    IF type_id = 0 THEN [id |-> type_id, steps |-> 0]
    ELSE FollowLoop(g, type_id, 0)

\* btf_get_type_by_id: the node of the followed id, NULL for id 0
btf_get_type_by_id(g, type_id) ==
    IF follow_types(g, type_id).id = 0 THEN NullNode
    ELSE btf__type_by_id(g, follow_types(g, type_id).id)

\* variant: the type id is followed before its kind is tested
MemberTarget_Followed(g, type_id) == btf__type_by_id(g, follow_types(g, type_id).id)

\* member lookup: const struct btf_type *type = btf__type_by_id(btf, type_id)
MemberTarget(g, type_id) == btf__type_by_id(g, type_id)

\* member lookup: the tests that end it with EPERM before the members are read
NotAggregate(hasBtf, g, type_id) ==
    \/ type_id = 0 \/ ~hasBtf
    \/ MemberTarget(g, type_id).kind = "NULL"
    \/ MemberTarget(g, type_id).kind \notin {"STRUCT", "UNION"}

\* md as the lookup writes it for the member at C index i
MemberMd(g, type, i) ==
    [index |-> i,
     effective_type_id |-> follow_types(g, type.members[i + 1].type).id,
     bit_offset |-> type.members[i + 1].offset]

\* variant: the last member of the name is returned
FirstMatch_Last(type, member_name) ==
    LET hits == {i \in 0..(Len(type.members) - 1) : type.members[i + 1].name = member_name}
    IN IF hits = {} THEN -1 ELSE CHOOSE i \in hits : \A j \in hits : j <= i

\* btf_get_member_md_by_name: the loop, index of the first member of the
\* name, -1 when the loop ends without a match
FirstMatch(type, member_name) ==
    LET hits == {i \in 0..(Len(type.members) - 1) : type.members[i + 1].name = member_name}
    IN IF hits = {} THEN -1 ELSE CHOOSE i \in hits : \A j \in hits : i <= j

\* variant: a name no member has is reported with its own error value
NoMatchRet_NotFound == ENOENT

\* btf_get_member_md_by_name: return EPERM after the loop
NoMatchRet == EPERM

\* btf_get_member_md_by_name(btf, type_id, member_name, md)
btf_get_member_md_by_name(hasBtf, g, type_id, member_name, md) ==
    IF NotAggregate(hasBtf, g, type_id) THEN [ret |-> EPERM, md |-> md]
    ELSE IF FirstMatch(MemberTarget(g, type_id), member_name) < 0
    THEN [ret |-> NoMatchRet, md |-> md]
    ELSE [ret |-> NO_ERROR,
          md |-> MemberMd(g, MemberTarget(g, type_id),
                          FirstMatch(MemberTarget(g, type_id), member_name))]

\* btf_get_member_md_by_index(btf, type_id, index, md)
btf_get_member_md_by_index(hasBtf, g, type_id, index, md) ==
    IF NotAggregate(hasBtf, g, type_id) THEN [ret |-> EPERM, md |-> md]
    ELSE IF index >= Len(MemberTarget(g, type_id).members)
    THEN [ret |-> EPERM, md |-> md]
    ELSE [ret |-> NO_ERROR, md |-> MemberMd(g, MemberTarget(g, type_id), index)]

\* variant: the element count is left out
ArraySize_ElemOnly(type_size, nelems) == type_size

\* btf_get_type_size_by_id, BTF_KIND_ARRAY: type_size * array_info->nelems
ArraySize(type_size, nelems) == type_size * nelems

RECURSIVE btf_get_type_size_by_id(_, _)
\* btf_get_type_size_by_id(btf, type_id)
btf_get_type_size_by_id(g, type_id) ==
    LET type == btf_get_type_by_id(g, type_id)
    IN IF type.kind = "NULL" THEN 0
       ELSE IF type.kind \in {"INT", "STRUCT", "UNION"} THEN type.size
       ELSE IF type.kind = "ARRAY"
       THEN ArraySize(btf_get_type_size_by_id(g, type.type), type.nelems)
       ELSE 0

\* names looked up in the aggregates
MemberNames == {"a", "b", "c"}

InitBtf ==
    /\ pc = "idle"
    /\ nsProgs = {}
    /\ nsMaps = {}
    /\ nsDir = FALSE
    /\ fds = {}
    /\ IdlePort
    /\ IdleLife
    /\ IdleObj
    /\ btf \in GraphsOf(MaxTypes)
    /\ bcall = NoBCall

\* what no call into the type graph changes
notBtfVars == <<ops, portVars, lifeVars, objVars, btf>>

\* a call of follow_types on an id of the graph or on 0
FollowTypes(type_id) ==
    /\ pc = "idle"
    /\ btf # <<>>
    /\ bcall' = [NoBCall EXCEPT !.fn = "follow_types", !.type_id = type_id,
                                !.ret = follow_types(btf, type_id).id,
                                !.steps = follow_types(btf, type_id).steps]
    /\ pc' = "btf_done"
    /\ UNCHANGED notBtfVars

\* a call of btf_get_member_md_by_name; md holds NoMd before the call
MemberByName(hasBtf, type_id, member_name) ==
    /\ pc = "idle"
    /\ btf # <<>>
    /\ LET r == btf_get_member_md_by_name(hasBtf, btf, type_id, member_name, NoMd)
       IN bcall' = [NoBCall EXCEPT !.fn = "by_name", !.hasBtf = hasBtf,
                                   !.type_id = type_id, !.name = member_name,
                                   !.ret = r.ret, !.md = r.md]
    /\ pc' = "btf_done"
    /\ UNCHANGED notBtfVars

\* a call of btf_get_member_md_by_index; md holds NoMd before the call
MemberByIndex(hasBtf, type_id, index) ==
    /\ pc = "idle"
    /\ btf # <<>>
    /\ LET r == btf_get_member_md_by_index(hasBtf, btf, type_id, index, NoMd)
       IN bcall' = [NoBCall EXCEPT !.fn = "by_index", !.hasBtf = hasBtf,
                                   !.type_id = type_id, !.index = index,
                                   !.ret = r.ret, !.md = r.md]
    /\ pc' = "btf_done"
    /\ UNCHANGED notBtfVars

\* a call of btf_get_type_size_by_id on an id of the graph or on 0
TypeSize(type_id) ==
    /\ pc = "idle"
    /\ btf # <<>>
    /\ bcall' = [NoBCall EXCEPT !.fn = "type_size", !.type_id = type_id,
                                !.ret = btf_get_type_size_by_id(btf, type_id)]
    /\ pc' = "btf_done"
    /\ UNCHANGED notBtfVars

\* the call has returned and its result was used
BtfReturn ==
    /\ pc = "btf_done"
    /\ pc' = "idle"
    /\ bcall' = NoBCall
    /\ UNCHANGED notBtfVars

NextBtf ==
    \/ \E x \in 0..Len(btf) : FollowTypes(x)
    \/ \E t \in 0..(Len(btf) + 1), n \in MemberNames : MemberByName(TRUE, t, n)
    \/ \E n \in MemberNames : MemberByName(FALSE, Len(btf), n)
    \/ \E t \in 0..(Len(btf) + 1), i \in 0..2 : MemberByIndex(TRUE, t, i)
    \/ \E i \in 0..2 : MemberByIndex(FALSE, Len(btf), i)
    \/ \E x \in 0..Len(btf) : TypeSize(x)
    \/ BtfReturn

SpecBtf == InitBtf /\ [][NextBtf]_vars

(* ================================================================== *)
(* Properties                                                         *)
(* ================================================================== *)

Range(seq) == {seq[k] : k \in 1..Len(seq)}

MaxOf(S) == CHOOSE x \in S : \A y \in S : y <= x

\* the value xdp_attach_prog_to_port returned in the current add_port,
\* -1 while it has not returned
AttachRet == IF pc = "ret" THEN last.attachRet ELSE call.attachRet

\* errno-style value returned for a bpf_set_link_xdp_fd result
RetOf(res) == IF res < 0 THEN -res ELSE NO_ERROR

(* C1: in xdp_attach_prog_to_port the first attach is made in driver mode; a
   generic-mode attach is made if and only if the driver-mode attach returned
   -EOPNOTSUPP, and then once; any other driver-mode failure is returned
   without a generic-mode attach, and the result of the generic-mode attach
   is returned without a further attach. *)
C1_AttachFallback ==
    /\ Len(attempts) <= 2
    /\ Len(attempts) >= 1 => attempts[1].mode = "drv"
    /\ Len(attempts) = 2 => /\ attempts[1].res = -EOPNOTSUPP
                            /\ attempts[2].mode = "skb"
    /\ pc = "attach_skb" => Len(attempts) = 1 /\ attempts[1].res = -EOPNOTSUPP
    /\ (AttachRet # -1 /\ Len(attempts) >= 1) =>
          IF attempts[1].res = -EOPNOTSUPP
          THEN Len(attempts) = 2 /\ AttachRet = RetOf(attempts[2].res)
          ELSE Len(attempts) = 1 /\ AttachRet = RetOf(attempts[1].res)
    /\ (AttachRet # -1 /\ Len(attempts) = 0) => AttachRet = ENOENT

\* an add_port that succeeded after the driver mode was not supported
C1_Witness ==
    /\ pc = "ret" /\ last.op = "add_port" /\ last.ret = NO_ERROR
    /\ Len(attempts) = 2
    /\ attempts[1] = [mode |-> "drv", res |-> -EOPNOTSUPP]
    /\ attempts[2] = [mode |-> "skb", res |-> 0]

(* C4, as claimed: add_port takes the XDP path unless the XDP helper program
   is absent from the namespace, in which case it takes the TC-only path. *)
C4_XdpUnlessHelperAbsent ==
    call.op = "add_port" => (call.isXDP <=> "XDP_HELPER_PROG" \in nsProgs)

(* C4, amended: add_port takes the TC-only path exactly when the XDP helper
   program is present in the namespace and the XDP path exactly when it is
   absent, whatever other programs the namespace holds; the XDP path attaches
   the XDP ingress program and the TC-only path attaches the helper. *)
C4_FlavorByHelper ==
    /\ call.op = "add_port" =>
          /\ call.isXDP <=> "XDP_HELPER_PROG" \notin nsProgs
          /\ call.prog = IF "XDP_HELPER_PROG" \in nsProgs
                         THEN "XDP_HELPER_PROG" ELSE "XDP_INGRESS_PROG"
    /\ pc \in {"xdp_devmap", "xdp_jump"} => "XDP_HELPER_PROG" \notin nsProgs
    /\ (pc = "ret" /\ last.op = "add_port" /\ last.path # "none") =>
          (last.path = "tc" <=> "XDP_HELPER_PROG" \in nsProgs)

\* the TC-only path is taken although the XDP ingress and egress programs exist
C4_Witness ==
    /\ pc = "tc_hook" /\ ~call.isXDP /\ call.attachRet = NO_ERROR
    /\ {"XDP_INGRESS_PROG", "XDP_EGRESS_PROG"} \subseteq nsProgs
    /\ xdp[call.ifindex] = ProgId("XDP_HELPER_PROG")

DelPortDone == pc = "ret" /\ last.op = "del_port" /\ last.ifindex # 0

(* C5, as claimed: a 'not supported' result of the XDP removal is a no-op
   after which del_port still destroys the hook; a missing hook is tolerated
   and any other hook-destroy failure is returned. *)
C5_NotSupportedIsNoOp ==
    (DelPortDone /\ last.xdpRes \in {0, -EOPNOTSUPP}) =>
        /\ last.hookTried
        /\ last.ret = IF last.hookErr \in {NO_ERROR, ENOENT}
                      THEN NO_ERROR ELSE last.hookErr

(* C5, amended: del_port first removes the XDP program; every failure of that
   removal, 'not supported' included, is returned as an error and the hook is
   not touched; only after a successful removal the hook is destroyed, where a
   missing hook is tolerated and any other failure is returned. *)
C5_DelPort ==
    DelPortDone =>
        IF last.xdpRes = 0
        THEN /\ last.hookTried
             /\ xdp[last.ifindex] = 0
             /\ last.ret = IF last.hookErr \in {NO_ERROR, ENOENT}
                           THEN NO_ERROR ELSE last.hookErr
             /\ last.hookErr = NO_ERROR => ~hook[last.ifindex]
        ELSE /\ ~last.hookTried
             /\ last.ret = -last.xdpRes
             /\ last.ret # NO_ERROR

\* the removal was not supported on an interface that has a hook: the hook stays
C5_Witness ==
    /\ DelPortDone /\ last.xdpRes = -EOPNOTSUPP
    /\ last.ret = EOPNOTSUPP
    /\ hook[last.ifindex]

(* C7: every devmap update of an XDP-path add_port for interface index I is
   made at slot I mod C, also for I >= C; so each slot holds the entry of the
   latest update by an interface congruent to the slot, and an add_port that
   succeeded on the XDP path has written its entry. *)
C7_DevmapSlots ==
    /\ \A s \in 0..(DevmapCap - 1) :
         LET cands == {k \in 1..Len(devOrder) : devOrder[k] % DevmapCap = s}
         IN IF cands = {} THEN devmap[s] = NoEntry
            ELSE devmap[s].ifindex = devOrder[MaxOf(cands)]
    /\ (pc = "ret" /\ last.op = "add_port" /\ last.path = "xdp"
            /\ last.ret = NO_ERROR) =>
          /\ devOrder # <<>>
          /\ devOrder[Len(devOrder)] = last.ifindex
          /\ last.slot = last.ifindex % DevmapCap
          /\ devmap[last.slot].ifindex = last.ifindex

\* two add_port calls succeeded on colliding interfaces: the later one holds the slot
C7_Witness ==
    /\ pc = "ret" /\ last.op = "add_port" /\ last.ret = NO_ERROR
    /\ Len(devOrder) = 2
    /\ devOrder[1] # devOrder[2]
    /\ devOrder[1] % DevmapCap = devOrder[2] % DevmapCap
    /\ devOrder[2] >= DevmapCap
    /\ devmap[devOrder[2] % DevmapCap].ifindex = devOrder[2]
    /\ xdp[devOrder[1]] = ProgId("XDP_INGRESS_PROG")

(* C8: a port iteration returns an interface if and only if the XDP program
   id read from it is nonzero and equal to the id recorded by
   nikss_port_list_init; an interface whose id cannot be read, is zero or
   differs is skipped and the iteration goes on to the end of the list. *)
C8_PortMatching ==
    /\ \A k \in 1..Len(visits) :
         /\ visits[k].ifindex = k
         /\ (k \in Range(yielded)) <=>
               (visits[k].ret = 0 /\ visits[k].id # 0
                   /\ visits[k].id = list.xdp_prog_id)
    /\ Range(yielded) \subseteq 1..Len(visits)
    /\ pc = "list_done" => Len(visits) = MaxIf

\* one interface carries the pipeline's program, one another program, one is unreadable
C8_Witness ==
    /\ pc = "list_done"
    /\ Len(yielded) = 1
    /\ \E j \in 1..Len(visits) :
         visits[j].ret = 0 /\ visits[j].id \notin {0, list.xdp_prog_id}
    /\ \E j \in 1..Len(visits) : visits[j].ret # 0 /\ j < Len(visits)

\* a load whose object was parsed is in progress or has just returned
LoadParsed == trace # <<>> /\ trace[1].kind = "load" /\ trace[1].ok

\* an unload whose tree walk started is in progress or has just returned
UnloadWalked == trace # <<>> /\ trace[1].kind = "unload" /\ trace[1].ok

\* positions of the steps of a kind in the current trace
StepsOf(kinds) == {i \in 1..Len(trace) : trace[i].kind \in kinds}

\* phase of a step of the load: 1 programs, 2 maps, 3 tuple wiring, 4 init
PhaseOf(kind) ==
    CASE kind = "load" -> 0
      [] kind = "pin_prog" -> 1
      [] kind \in {"unpin", "skip", "set_pin_path", "pin_map"} -> 2
      [] kind \in {"open_index", "tuple_id", "open_tuple", "wire"} -> 3
      [] kind = "init" -> 4
      [] OTHER -> 5

(* C2: when nikss_pipeline_load fails at a step after the object was parsed
   (a program pin, the removal of an old map pin, a map pin, an open or the id
   extraction of the tuple wiring, an init run), that step is the last one the
   load executes, the load returns a non-zero value, and every program and
   map pinned before it is still in the pipeline namespace. *)
C2_NoRollback ==
    LoadParsed =>
        /\ \A i \in 1..Len(trace) :
              (~trace[i].ok /\ trace[i].kind # "wire") =>
                  /\ i = Len(trace)
                  /\ pc = "done"
                  /\ lret # 0
        /\ \A i \in StepsOf({"pin_prog"}) : trace[i].ok => trace[i].name \in nsProgs
        /\ \A i \in StepsOf({"pin_map"}) : trace[i].ok => trace[i].name \in nsMaps

\* a load that pinned a program and a map and then failed has returned
C2_Witness ==
    /\ pc = "done"
    /\ LoadParsed
    /\ ~trace[Len(trace)].ok
    /\ lret # 0
    /\ \E i \in StepsOf({"pin_prog"}) : trace[i].ok /\ trace[i].name \in nsProgs
    /\ \E i \in StepsOf({"pin_map"}) : trace[i].ok /\ trace[i].name \in nsMaps

(* C3, as claimed: the steps of a load are ordered by phase (programs, maps,
   tuple wiring, init programs), and the tuple wiring of a partition map
   starts only after every map of the object that gets a pin has been
   pinned. *)
C3_PhasesInOrder ==
    LoadParsed =>
        /\ \A i, j \in 1..Len(trace) :
              i < j => PhaseOf(trace[i].kind) <= PhaseOf(trace[j].kind)
        /\ \A i \in StepsOf({"open_index"}) :
              \A k \in 1..Len(obj.maps) :
                  StrStr(obj.maps[k].name, <<".">>) = 0 =>
                      \E p \in StepsOf({"pin_map"}) :
                          /\ p < i
                          /\ trace[p].ok
                          /\ trace[p].name = obj.maps[k].name

\* the load fails because the index table of a partition map comes later in
\* the object: its wiring was tried before the table was pinned
C3_Witness ==
    /\ pc = "done"
    /\ LoadParsed
    /\ lret # 0
    /\ Len(obj.maps) = 2
    /\ obj.maps[2].name = TuplesMapName(obj.maps[1].name)
    /\ trace[Len(trace)] = Ev("open_index", obj.maps[2].name, FALSE)

(* C6: an unload attempts the removal of every entry of the namespace and
   then of the directory: an entry is still there afterwards only if its own
   removal failed, a failed removal does not end the walk and is not
   returned, and when no removal failed the directory is gone and
   nikss_pipeline_exists is false. *)
C6_Unload ==
    UnloadWalked =>
        /\ \A e \in Entries :
              \/ e \in todo
              \/ \E i \in StepsOf({"remove"}) : trace[i].name = e /\ ~trace[i].ok
        /\ \A i \in StepsOf({"remove"}) : trace[i].ok => trace[i].name \notin Entries
        /\ lret = NO_ERROR
        /\ pc = "done" =>
              /\ todo = {}
              /\ trace[Len(trace)].kind = "rmdir"
              /\ (\A i \in 1..Len(trace) : trace[i].ok) =>
                    /\ ~nikss_pipeline_exists
                    /\ Entries = {}

\* an unload has returned in which a removal failed and a later one succeeded
C6_Witness ==
    /\ pc = "done"
    /\ UnloadWalked
    /\ \E i, j \in StepsOf({"remove"}) : i < j /\ ~trace[i].ok /\ trace[j].ok
    /\ nikss_pipeline_exists

\* an unload has returned in which no removal failed
C6_WitnessClean ==
    /\ pc = "done"
    /\ UnloadWalked
    /\ StepsOf({"remove"}) # {}
    /\ \A i \in 1..Len(trace) : trace[i].ok

\* the enumeration has read the whole directory
EnumDone == objlist.active /\ dirents = {}

\* the object names returned for the directory entry e
YieldsOf(e) == {y.name : y \in {z \in objout : z.entry = e}}

\* the name ends with one of the recognized implementation suffixes
HasKnownSuffix(e) == \E i \in 1..Len(Suffixes) : StrEndsWith(e, Suffixes[i])

\* the name contains the ternary-partition infix
HasInfix(e) == StrStr(e, <<"_", "t", "u", "p", "l", "e", "_">>) # 0

\* the name is reserved, exactly or by its prefix
IsReserved(e) == e \in ReservedNames \/ StartsWith(e, <<"e", "b", "p", "f", "_">>)

\* an entry named e followed by one more recognized suffix exists
HasExtension(e) == \E i \in 1..Len(Suffixes) : (e \o Suffixes[i]) \in nsMaps

\* what the enumerator returns for a non-reserved entry with a recognized
\* suffix: the owner for _prefixes and _actions, else the entry's own name
\* when an extension of it exists, else nothing
SuffixYield(e) ==
    IF StrEndsWith(e, <<"_", "p", "r", "e", "f", "i", "x", "e", "s">>) THEN {SubSeq(e, 1, Len(e) - Len(<<"_", "p", "r", "e", "f", "i", "x", "e", "s">>))}
    ELSE IF StrEndsWith(e, <<"_", "a", "c", "t", "i", "o", "n", "s">>) THEN {SubSeq(e, 1, Len(e) - Len(<<"_", "a", "c", "t", "i", "o", "n", "s">>))}
    ELSE IF HasExtension(e) THEN {e}
    ELSE {}

(* C9, as claimed: every entry whose name ends with a recognized suffix and
   does not contain the ternary-partition infix is returned as its name
   without one matching suffix. *)
C9_EverySuffixFolded ==
    EnumDone =>
        \A e \in nsMaps :
            (HasKnownSuffix(e) /\ ~HasInfix(e)) =>
                \E i \in 1..Len(Suffixes) :
                    /\ StrEndsWith(e, Suffixes[i])
                    /\ YieldsOf(e) = {RemoveSuffix(e, Suffixes[i])}

(* C9, amended: of the entries whose name ends with a recognized suffix and
   does not contain the ternary-partition infix, a reserved one is never
   returned; one ending with _prefixes or _actions is returned as its name
   without that one suffix; one ending with another recognized suffix is
   returned, under its full name, only if an entry with its name followed by
   a recognized suffix exists, and is not returned otherwise. *)
C9_SuffixHandling ==
    \A e \in nsMaps :
        (HasKnownSuffix(e) /\ ~HasInfix(e)) =>
            YieldsOf(e) = IF e \notin objseen \/ IsReserved(e) THEN {}
                          ELSE SuffixYield(e)

\* the directory holds acl_table_defaultAction and t_prefixes; the whole of it
\* was read and only t was returned
C9_Witness ==
    /\ EnumDone
    /\ nsMaps = {<<"a", "c", "l", "_", "t", "a", "b", "l", "e", "_", "d", "e", "f", "a", "u", "l", "t", "A", "c", "t", "i", "o", "n">>, <<"t", "_", "p", "r", "e", "f", "i", "x", "e", "s">>}
    /\ objout = {[entry |-> <<"t", "_", "p", "r", "e", "f", "i", "x", "e", "s">>, name |-> <<"t">>]}

(* C10, as claimed: no entry whose name contains the ternary-partition infix
   is returned, whether or not the name ends with a recognized suffix. *)
C10_InfixNeverYielded ==
    \A y \in objout : ~HasInfix(y.entry)

(* C10, amended: an entry whose name contains the ternary-partition infix is
   never returned when the name ends with no recognized suffix; when it ends
   with _prefixes or _actions it is returned as its name without that suffix;
   when it ends with another recognized suffix it is returned under its full
   name only if an entry with its name followed by a recognized suffix
   exists. *)
C10_InfixHandling ==
    \A e \in nsMaps :
        (HasInfix(e) /\ ~IsReserved(e)) =>
            YieldsOf(e) = IF e \notin objseen \/ ~HasKnownSuffix(e) THEN {}
                          ELSE SuffixYield(e)

\* the directory holds x_tuple_1 and x_tuple_1_prefixes; the whole of it was
\* read: the first was skipped, the second returned as x_tuple_1
C10_Witness ==
    /\ EnumDone
    /\ nsMaps = {<<"x", "_", "t", "u", "p", "l", "e", "_", "1">>, <<"x", "_", "t", "u", "p", "l", "e", "_", "1", "_", "p", "r", "e", "f", "i", "x", "e", "s">>}
    /\ objout = {[entry |-> <<"x", "_", "t", "u", "p", "l", "e", "_", "1", "_", "p", "r", "e", "f", "i", "x", "e", "s">>, name |-> <<"x", "_", "t", "u", "p", "l", "e", "_", "1">>]}

(* C11: an entry whose name has no recognized suffix and no ternary-partition
   infix is, once read, not returned when its name is a reserved name or
   starts with ebpf_, and is returned under its unchanged name otherwise. *)
C11_PlainNames ==
    \A e \in nsMaps :
        (~HasKnownSuffix(e) /\ ~HasInfix(e) /\ e \in objseen) =>
            YieldsOf(e) = IF e \in { <<"c", "l", "o", "n", "e", "_", "s", "e", "s", "s", "i", "o", "n", "_", "t", "b", "l">>, <<"c", "l", "o", "n", "e", "_", "s", "e", "s", "s", "i", "o", "n", "_", "t", "b", "l", "_", "i", "n", "n", "e", "r">>,
                                     <<"m", "u", "l", "t", "i", "c", "a", "s", "t", "_", "g", "r", "p", "_", "t", "b", "l">>, <<"m", "u", "l", "t", "i", "c", "a", "s", "t", "_", "g", "r", "p", "_", "t", "b", "l", "_", "i", "n", "n", "e", "r">>,
                                     <<"h", "d", "r", "_", "m", "d", "_", "c", "p", "u", "m", "a", "p">>, <<"x", "d", "p", "2", "t", "c", "_", "s", "h", "a", "r", "e", "d", "_", "m", "a", "p">>,
                                     <<"x", "d", "p", "2", "t", "c", "_", "c", "p", "u", "m", "a", "p">>, <<"t", "x", "_", "p", "o", "r", "t">>, <<"c", "r", "c", "_", "l", "o", "o", "k", "u", "p", "_", "t", "b", "l">> }
                             \/ StartsWith(e, <<"e", "b", "p", "f", "_">>)
                          THEN {}
                          ELSE {e}

\* the directory holds simple_table and ebpf_internal_x; the whole of it was
\* read and only simple_table was returned, unchanged
C11_Witness ==
    /\ EnumDone
    /\ nsMaps = {<<"s", "i", "m", "p", "l", "e", "_", "t", "a", "b", "l", "e">>, <<"e", "b", "p", "f", "_", "i", "n", "t", "e", "r", "n", "a", "l", "_", "x">>}
    /\ objout = {[entry |-> <<"s", "i", "m", "p", "l", "e", "_", "t", "a", "b", "l", "e">>, name |-> <<"s", "i", "m", "p", "l", "e", "_", "t", "a", "b", "l", "e">>]}

\* the text after the last underscore of a name
TrailingSegment(name) == SubSeq(name, StrRChr(name, "_") + 1, Len(name))

\* the text is a decimal number: not empty, digits only
IsDecimal(s) == Len(s) > 0 /\ \A i \in 1..Len(s) : IsDigit(s[i])

\* the value of a decimal number
DecimalValue(s) ==
    LET V[k \in 0..Len(s)] == IF k = 0 THEN 0 ELSE V[k - 1] * 10 + DigitValue(s[k])
    IN V[Len(s)]

(* C12, as claimed: an entry is installed only for a map whose trailing
   segment is a decimal number, in the index table named by the part of the
   map's name before its first _tuple_ followed by _tuples_map, under the
   value of that number; and a failed extraction of the id makes the load
   fail. *)
C12_TupleIdExtraction ==
    /\ \A w \in wired :
          /\ w.table = SubSeq(w.tuple, 1, StrStr(w.tuple, <<"_", "t", "u", "p", "l", "e", "_">>) - 1) \o <<"_", "t", "u", "p", "l", "e", "s", "_", "m", "a", "p">>
          /\ IsDecimal(TrailingSegment(w.tuple))
          /\ w.id = [hi |-> 0, lo |-> DecimalValue(TrailingSegment(w.tuple))]
    /\ \A i \in StepsOf({"open_tuple"}) : IsDecimal(TrailingSegment(trace[i].name))
    /\ \A i \in StepsOf({"tuple_id"}) :
          /\ ~trace[i].ok
          /\ ~IsDecimal(TrailingSegment(trace[i].name))
          /\ i = Len(trace)
          /\ lret # 0

\* a load has succeeded that installed t_tuple_3x in t_tuples_map under id 3
C12_Witness ==
    /\ pc = "done"
    /\ LoadParsed
    /\ lret = 0
    /\ [table |-> <<"t", "_", "t", "u", "p", "l", "e", "s", "_", "m", "a", "p">>, id |-> [hi |-> 0, lo |-> 3], tuple |-> <<"t", "_", "t", "u", "p", "l", "e", "_", "3", "x">>]
          \in wired

(* C13: the name a program is pinned under has the length of its section
   name, a '_' wherever the section name has a '/', the section name's
   character everywhere else, and hence no '/'. *)
C13_PinName ==
    LoadParsed =>
        \A i \in StepsOf({"pin_prog"}) :
            LET sec == obj.progs[i - 1]
                name == trace[i].name
            IN /\ Len(name) = Len(sec)
               /\ \A k \in 1..Len(sec) :
                     /\ sec[k] = "/" => name[k] = "_"
                     /\ sec[k] # "/" => name[k] = sec[k]
               /\ \A k \in 1..Len(name) : name[k] # "/"

\* the program of section tc/ingress/prog was pinned as tc_ingress_prog
C13_Witness ==
    /\ LoadParsed
    /\ obj.progs[1] = <<"t", "c", "/", "i", "n", "g", "r", "e", "s", "s", "/", "p", "r", "o", "g">>
    /\ Len(trace) >= 2
    /\ trace[2] = Ev("pin_prog", <<"t", "c", "_", "i", "n", "g", "r", "e", "s", "s", "_", "p", "r", "o", "g">>, TRUE)
    /\ <<"t", "c", "_", "i", "n", "g", "r", "e", "s", "s", "_", "p", "r", "o", "g">> \in nsProgs

\* the last call was a member lookup on a struct or union of the graph
OnAggregate ==
    /\ bcall.fn \in {"by_name", "by_index"}
    /\ bcall.hasBtf
    /\ bcall.type_id \in 1..Len(btf)
    /\ btf[bcall.type_id].kind \in {"STRUCT", "UNION"}

\* the members of the aggregate of the last call, and their C indexes
CallMembers == btf[bcall.type_id].members

CallIndexes == 0..(Len(CallMembers) - 1)

\* C index of the first member of the aggregate that has the name of member i
FirstOfName(i) ==
    CHOOSE j \in CallIndexes :
        /\ CallMembers[j + 1].name = CallMembers[i + 1].name
        /\ \A k \in CallIndexes : CallMembers[k + 1].name = CallMembers[i + 1].name => j <= k

(* C14, as claimed: for every member of a struct or union, the lookup by its
   index and the lookup by its name both succeed and give the same
   effective_type_id and the same bit_offset. *)
C14_NameAndIndexAgree ==
    (OnAggregate /\ bcall.fn = "by_index" /\ bcall.index \in CallIndexes) =>
        LET byName == btf_get_member_md_by_name(TRUE, btf, bcall.type_id,
                                                CallMembers[bcall.index + 1].name, NoMd)
        IN /\ bcall.ret = NO_ERROR
           /\ byName.ret = NO_ERROR
           /\ byName.md.effective_type_id = bcall.md.effective_type_id
           /\ byName.md.bit_offset = bcall.md.bit_offset

(* C14, amended: for every member of a struct or union, the lookup by its
   index and the lookup by its name both succeed; they give the same
   effective_type_id and bit_offset when no earlier member has the same name,
   and otherwise the lookup by name gives what the lookup by index gives for
   the first member of that name. *)
C14_NameIsFirstMatch ==
    (OnAggregate /\ bcall.fn = "by_index" /\ bcall.index \in CallIndexes) =>
        LET byName == btf_get_member_md_by_name(TRUE, btf, bcall.type_id,
                                                CallMembers[bcall.index + 1].name, NoMd)
            first == FirstOfName(bcall.index)
        IN /\ bcall.ret = NO_ERROR
           /\ bcall.md.index = bcall.index
           /\ bcall.md.bit_offset = CallMembers[bcall.index + 1].offset
           /\ byName.ret = NO_ERROR
           /\ byName.md.index = first
           /\ byName.md.bit_offset = CallMembers[first + 1].offset
           /\ byName.md = btf_get_member_md_by_index(TRUE, btf, bcall.type_id, first, NoMd).md
           /\ first = bcall.index => byName.md = bcall.md

\* the second of two members named a was looked up by index: its offset is
\* 32, while the lookup by name gives the member at offset 0
C14_Witness ==
    /\ OnAggregate
    /\ bcall.fn = "by_index"
    /\ bcall.index = 1
    /\ CallMembers[1].name = CallMembers[2].name
    /\ bcall.ret = NO_ERROR
    /\ bcall.md.bit_offset = 32
    /\ btf_get_member_md_by_name(TRUE, btf, bcall.type_id, "a", NoMd).md.bit_offset = 0

(* C15: a member lookup with type id 0, or with a type id whose node is not a
   struct or union, returns EPERM and leaves md as it was. *)
C15_NotAggregate ==
    (/\ bcall.fn \in {"by_name", "by_index"}
     /\ \/ bcall.type_id = 0
        \/ /\ bcall.type_id \in 1..Len(btf)
           /\ btf[bcall.type_id].kind \notin {"STRUCT", "UNION"}) =>
        /\ bcall.ret = EPERM
        /\ bcall.md = NoMd

\* a lookup of the name a on a typedef of a struct that has a member a
\* returned EPERM
C15_Witness ==
    /\ bcall.fn = "by_name"
    /\ bcall.name = "a"
    /\ bcall.type_id \in 2..Len(btf)
    /\ btf[bcall.type_id].kind = "TYPEDEF"
    /\ btf[bcall.type_id].type # 0
    /\ btf[btf[bcall.type_id].type].kind = "STRUCT"
    /\ bcall.ret = EPERM
    /\ bcall.md = NoMd

\* the node reached from an id by following typedefs and pointers
CanonicalNode(id) == btf__type_by_id(btf, follow_types(btf, id).id)

(* C16, as claimed: a member lookup whose type id is a typedef or pointer
   that leads to a struct or union works on that struct or union: it succeeds
   for a member the aggregate has, and returns the not-an-aggregate error only
   when the node reached is not a struct or union. *)
C16_Canonicalized ==
    (/\ bcall.fn \in {"by_name", "by_index"}
     /\ bcall.hasBtf
     /\ bcall.type_id \in 1..Len(btf)
     /\ CanonicalNode(bcall.type_id).kind \in {"STRUCT", "UNION"}) =>
        LET ms == CanonicalNode(bcall.type_id).members
        IN /\ (bcall.fn = "by_index" /\ bcall.index < Len(ms)) => bcall.ret = NO_ERROR
           /\ (bcall.fn = "by_name" /\ \E k \in 1..Len(ms) : ms[k].name = bcall.name) =>
                 bcall.ret = NO_ERROR

\* a lookup of index 0 on a typedef of a struct returned EPERM
C16_Witness ==
    /\ bcall.fn = "by_index"
    /\ bcall.hasBtf
    /\ bcall.index = 0
    /\ bcall.type_id \in 2..Len(btf)
    /\ btf[bcall.type_id].kind = "TYPEDEF"
    /\ CanonicalNode(bcall.type_id).kind = "STRUCT"
    /\ bcall.ret = EPERM

(* C17, as claimed: on a struct or union, a lookup of a name no member has
   and a lookup of an index that is not below the member count fail, each
   with an error value other than the one returned for a target that is not
   a struct or union. *)
C17_DistinctErrors ==
    LET notAggregate == btf_get_member_md_by_name(TRUE, btf, 0, "a", NoMd).ret
    IN (/\ OnAggregate
        /\ \/ bcall.fn = "by_name" /\ \A k \in 1..Len(CallMembers) : CallMembers[k].name # bcall.name
           \/ bcall.fn = "by_index" /\ bcall.index >= Len(CallMembers)) =>
           /\ bcall.ret # NO_ERROR
           /\ bcall.ret # notAggregate

(* C17, amended: on a struct or union, a lookup of a name no member has and a
   lookup of an index that is not below the member count fail and leave md
   as it was; both return EPERM, the value also returned for a target that
   is not a struct or union. *)
C17_SameError ==
    (/\ OnAggregate
     /\ \/ bcall.fn = "by_name" /\ \A k \in 1..Len(CallMembers) : CallMembers[k].name # bcall.name
        \/ bcall.fn = "by_index" /\ bcall.index >= Len(CallMembers)) =>
        /\ bcall.ret = EPERM
        /\ bcall.ret = btf_get_member_md_by_index(TRUE, btf, 0, 0, NoMd).ret
        /\ bcall.md = NoMd

\* a lookup of the name c on a struct returned EPERM
C17_Witness ==
    /\ OnAggregate
    /\ bcall.fn = "by_name"
    /\ bcall.name = "c"
    /\ btf[bcall.type_id].kind = "STRUCT"
    /\ bcall.ret = EPERM

\* a lookup of index 2 on a struct of two members returned EPERM
C17_WitnessIndex ==
    /\ OnAggregate
    /\ bcall.fn = "by_index"
    /\ bcall.index = 2
    /\ Len(CallMembers) = 2
    /\ bcall.ret = EPERM

(* C18: follow_types on an id of the graph or on 0 ends after at most as many
   replacements as the graph has nodes, returns 0 or the id of a node that is
   neither a typedef nor a pointer, returns its own result unchanged when
   applied to it, and returns 0 for 0 without following anything. *)
C18_FollowTypes ==
    bcall.fn = "follow_types" =>
        /\ bcall.steps <= Len(btf)
        /\ bcall.ret \in 0..Len(btf)
        /\ bcall.ret # 0 => btf[bcall.ret].kind \notin {"TYPEDEF", "PTR"}
        /\ follow_types(btf, bcall.ret).id = bcall.ret
        /\ follow_types(btf, bcall.ret).steps = 0
        /\ bcall.type_id = 0 => (bcall.ret = 0 /\ bcall.steps = 0)

\* follow_types went from a typedef over a pointer to a struct
C18_Witness ==
    /\ bcall.fn = "follow_types"
    /\ bcall.type_id = 3
    /\ btf[3].kind = "TYPEDEF"
    /\ btf[2].kind = "PTR"
    /\ btf[1].kind = "STRUCT"
    /\ bcall.steps = 2
    /\ bcall.ret = 1

\* the size the claim gives for the node reached from an id
DeclaredSize(id) ==
    LET node == CanonicalNode(id)
    IN IF follow_types(btf, id).id = 0 THEN 0
       ELSE IF node.kind \in {"INT", "STRUCT", "UNION"} THEN node.size
       ELSE IF node.kind = "ARRAY" THEN btf_get_type_size_by_id(btf, node.type) * node.nelems
       ELSE 0

(* C19: btf_get_type_size_by_id returns, for the node reached from its
   argument by following typedefs and pointers: the declared size of an
   integer, struct or union; for an array the size of its element type times
   its element count, the element type being sized the same way; 0 for id 0
   and for every other kind of node. *)
C19_TypeSize ==
    bcall.fn = "type_size" =>
        /\ bcall.ret = DeclaredSize(bcall.type_id)
        /\ \A id \in 1..Len(btf) :
              btf[id].kind = "ARRAY" =>
                  btf_get_type_size_by_id(btf, id) = DeclaredSize(btf[id].type) * btf[id].nelems

\* the size of an array of two arrays of two 4-byte integers is 16
C19_Witness ==
    /\ bcall.fn = "type_size"
    /\ bcall.type_id = 3
    /\ btf[3].kind = "ARRAY" /\ btf[3].type = 2
    /\ btf[2].kind = "ARRAY" /\ btf[2].type = 1
    /\ btf[1].kind = "INT"
    /\ bcall.ret = 16

\* the size of an array of a typedef of a 4-byte integer is 8, and the size
\* of an enum is 0
C19_WitnessTypedef ==
    /\ bcall.fn = "type_size"
    /\ bcall.type_id = 3
    /\ btf[3].kind = "ARRAY" /\ btf[3].type = 2
    /\ btf[2].kind = "TYPEDEF" /\ btf[2].type = 1
    /\ btf[1].kind = "INT"
    /\ bcall.ret = 8


(* C20: an add_port that reaches tc_create_hook on an interface whose combined
   ingress+egress hook already exists reuses the hook: the hook stays and the
   call goes on to attach the TC ingress program instead of returning. *)
C20_HookReused ==
    [][(pc = "tc_hook" /\ hook[call.ifindex]) =>
          (pc' = "tc_ingress" /\ hook'[call.ifindex])]_vars

\* an add_port on the TC path has returned the error of the hook creation on
\* an interface that had the hook, without a TC ingress program of its own
C20_Witness ==
    /\ pc = "ret"
    /\ last.op = "add_port" /\ last.path = "tc"
    /\ last.attachRet = NO_ERROR
    /\ last.ret = EEXIST
    /\ hook[last.ifindex]


(* C21, as claimed: when the installation of a partition map in its index
   table fails during a load, that step is the last one of the load (no
   further map, no init program) and the load returns an error; a load that
   returns 0 has no failed installation. *)
C21_UpdateFailureAborts ==
    LoadParsed =>
        \A i \in StepsOf({"wire"}) :
            ~trace[i].ok => /\ i = Len(trace)
                            /\ pc = "done"
                            /\ lret # 0

\* a load has returned 0 although the installation of a partition map failed,
\* and it ran an init program after the failure
C21_Witness ==
    /\ pc = "done"
    /\ LoadParsed
    /\ lret = 0
    /\ \E i \in StepsOf({"wire"}), j \in StepsOf({"init"}) :
          /\ ~trace[i].ok
          /\ i < j
          /\ \A w \in wired : w.tuple # trace[i].name


(* C22, as claimed: a returned nikss_pipeline_load gives 0 exactly when every
   step of every phase succeeded and a positive error code otherwise; the
   value is never negative. *)
C22_ReturnSign ==
    (pc = "done" /\ trace # <<>> /\ trace[1].kind = "load") =>
        /\ lret >= 0
        /\ lret = 0 <=> \A i \in 1..Len(trace) : trace[i].ok

\* a load whose tuple wiring failed (index table or partition map not opened,
\* partition id not extracted) has returned a negative value
C22_Witness ==
    /\ pc = "done"
    /\ LoadParsed
    /\ lret < 0
    /\ trace[Len(trace)].kind \in {"open_index", "tuple_id", "open_tuple"}
    /\ ~trace[Len(trace)].ok


(* C23, as claimed: when nikss_pipeline_load or nikss_pipeline_add_port has
   returned, no map or program handle opened by the call is still open; the
   index-table handle and the partition-map handle of a tuple-wiring step are
   closed when the step ends. *)
C23_HandlesReleased ==
    /\ (pc = "done" /\ trace # <<>> /\ trace[1].kind = "load") => fds = {}
    /\ (pc = "ret" /\ last.op = "add_port") => fds = {}
    /\ (pc \in {"map_pin", "init"} /\ LoadParsed) => fds = {}

\* a load has succeeded and the index-table handle and the partition-map
\* handle of a successful wiring step are still open
C23_Witness ==
    /\ pc = "done"
    /\ LoadParsed
    /\ lret = 0
    /\ \E i \in StepsOf({"wire"}) :
          /\ trace[i].ok
          /\ {trace[i].name, TuplesMapName(trace[i].name)} \subseteq fds

\* add_port has returned the error of update_map_info with the handle of the
\* redirect table still open
C23_WitnessPort ==
    /\ pc = "ret"
    /\ last.op = "add_port"
    /\ last.ret = EINVAL
    /\ "devmap" \in fds


\* the entry of the redirect table that an XDP-path add_port writes
ExpectedEntry(ifindex) ==
    [ifindex |-> ifindex,
     prog |-> IF "XDP_EGRESS_PROG" \in nsProgs THEN ProgId("XDP_EGRESS_PROG") ELSE 0]

(* C24, as claimed: on the XDP path, when the XDP egress program is absent the
   redirect-table install step is skipped: the step leaves the redirect table
   unchanged. *)
C24_SkippedWithoutEgress ==
    [][(pc = "xdp_devmap" /\ "XDP_EGRESS_PROG" \notin nsProgs) =>
          devmap' = devmap]_vars

(* C24, amended: on the XDP path the redirect-table entry of the interface is
   written whether or not the XDP egress program exists; the entry holds the
   interface index and, only when the egress program exists, that program.
   An absent egress program is tolerated: the entry is written without a
   program and add_port goes on with the remaining steps. *)
C24_EntryAlwaysWritten ==
    /\ (pc \in {"xdp_jump", "tc_hook", "tc_ingress", "tc_egress"} /\ call.isXDP) =>
          /\ call.slot = call.ifindex % DevmapCap
          /\ devmap[call.slot] = ExpectedEntry(call.ifindex)
    /\ (pc = "ret" /\ last.op = "add_port" /\ last.path = "xdp"
            /\ last.ret = NO_ERROR) =>
          devmap[last.slot] = ExpectedEntry(last.ifindex)
    /\ \A s \in 0..(DevmapCap - 1) :
          devmap[s].prog # 0 =>
              /\ "XDP_EGRESS_PROG" \in nsProgs
              /\ devmap[s].prog = ProgId("XDP_EGRESS_PROG")

\* an XDP-path add_port has succeeded without an egress program and its entry
\* is in the redirect table, without a program
C24_Witness ==
    /\ pc = "ret" /\ last.op = "add_port" /\ last.path = "xdp"
    /\ last.ret = NO_ERROR
    /\ "XDP_EGRESS_PROG" \notin nsProgs
    /\ devmap[last.slot] = [ifindex |-> last.ifindex, prog |-> 0]


OptimizedId == ProgId("XDP_EGRESS_PROG_OPTIMIZED")

\* the jump-table step of xdp_port_add: slot 0 gets the optimized egress
\* program when it exists and the step succeeds, and is unchanged otherwise
JumpStep ==
    pc = "xdp_jump" =>
        /\ devmap' = devmap
        /\ IF "XDP_EGRESS_PROG_OPTIMIZED" \in nsProgs
           THEN /\ pc' = "tc_hook" => jmptbl' = OptimizedId
                /\ pc' # "tc_hook" => jmptbl' = jmptbl
           ELSE /\ jmptbl' = jmptbl
                /\ pc' = "tc_hook"

(* C25, as claimed: on the XDP path, when the optimized egress program exists
   it is installed at slot 0 of the jump table instead of the redirect-table
   install, so the redirect table is not written for that add_port; when it
   does not exist the jump table is left unchanged. *)
C25_JumpInsteadOfRedirect ==
    [][/\ JumpStep
       /\ (call.op = "add_port" /\ "XDP_EGRESS_PROG_OPTIMIZED" \in nsProgs) =>
             devmap' = devmap]_vars

(* C25, amended: on the XDP path the redirect-table entry of the interface is
   written first, whether or not the optimized egress program exists; then,
   when the optimized egress program exists, it is installed at slot 0 of the
   jump table in addition; when it does not exist the jump table is left
   unchanged. *)
C25_JumpAfterRedirect ==
    /\ [][JumpStep]_vars
    /\ [](pc = "xdp_jump" => devmap[call.slot] = ExpectedEntry(call.ifindex))
    /\ []("XDP_EGRESS_PROG_OPTIMIZED" \notin nsProgs => jmptbl = 0)

\* an XDP-path add_port has succeeded with the optimized egress program: slot 0
\* of the jump table holds it and the redirect table holds the interface's entry
C25_Witness ==
    /\ pc = "ret" /\ last.op = "add_port" /\ last.path = "xdp"
    /\ last.ret = NO_ERROR
    /\ "XDP_EGRESS_PROG_OPTIMIZED" \in nsProgs
    /\ jmptbl = OptimizedId
    /\ devmap[last.slot] = ExpectedEntry(last.ifindex)


(* C26, as claimed: update_prog_devmap emits the capacity warning exactly when
   the interface index is greater than or equal to the capacity, so also when
   the two are equal and the slot wraps to 0, and never below the capacity. *)
C26_WarnsAtCapacity ==
    /\ (call.op = "add_port" /\ call.slot # -1) =>
          (call.warned <=> call.ifindex >= DevmapCap)
    /\ (pc = "ret" /\ last.op = "add_port" /\ last.slot # -1) =>
          (last.warned <=> last.ifindex >= DevmapCap)

\* an add_port for the interface whose index equals the capacity has written
\* slot 0 and succeeded without the warning
C26_Witness ==
    /\ pc = "ret" /\ last.op = "add_port" /\ last.path = "xdp"
    /\ last.ret = NO_ERROR
    /\ last.ifindex = DevmapCap
    /\ last.slot = 0
    /\ devmap[0].ifindex = last.ifindex
    /\ ~last.warned


\* add_port is at a step that comes after the attach of its XDP program
AfterAttach == pc \in {"xdp_devmap", "xdp_jump", "tc_hook", "tc_ingress", "tc_egress"}

\* what add_port has attached and written for its interface before the
\* step it is at
DoneSoFar ==
    /\ call.op = "add_port"
    /\ call.attachRet = NO_ERROR
    /\ xdp[call.ifindex] = ProgId(call.prog)
    /\ (pc \in {"xdp_jump", "tc_hook", "tc_ingress", "tc_egress"} /\ call.isXDP) =>
          devmap[call.slot].ifindex = call.ifindex
    /\ (pc \in {"tc_hook", "tc_ingress", "tc_egress"} /\ call.isXDP
            /\ "XDP_EGRESS_PROG_OPTIMIZED" \in nsProgs) => jmptbl = OptimizedId
    /\ pc \in {"tc_ingress", "tc_egress"} => hook[call.ifindex]
    /\ pc = "tc_egress" => tcIn[call.ifindex] = ProgId("TC_INGRESS_PROG")

\* a step after the attach fails: add_port returns the error and every
\* attachment and table entry is as the earlier steps left it
FailedStepUndoesNothing ==
    (AfterAttach /\ pc' = "ret" /\ last'.ret # NO_ERROR) =>
        /\ last'.op = "add_port"
        /\ last'.attachRet = NO_ERROR
        /\ xdp' = xdp
        /\ devmap' = devmap
        /\ jmptbl' = jmptbl
        /\ hook' = hook
        /\ tcIn' = tcIn
        /\ tcEg' = tcEg

(* C27: when add_port fails at a step after its XDP program was attached
   (redirect table, jump table, hook, TC attach), the XDP program stays
   attached to the interface and every table entry, hook and TC program set
   by the earlier steps stays in place; the error is returned and nothing is
   undone. *)
C27_NoUndo ==
    /\ [](AfterAttach => DoneSoFar)
    /\ [][FailedStepUndoesNothing]_vars
    /\ []((pc = "ret" /\ last.op = "add_port" /\ last.attachRet = NO_ERROR) =>
             xdp[last.ifindex] = ProgId(IF last.path = "xdp" THEN "XDP_INGRESS_PROG"
                                                             ELSE "XDP_HELPER_PROG"))

\* an XDP-path add_port wrote its redirect-table entry and the jump table and
\* then failed at the TC ingress attach: program, entries and hook are in place
C27_Witness ==
    /\ pc = "ret" /\ last.op = "add_port" /\ last.path = "xdp"
    /\ last.attachRet = NO_ERROR
    /\ last.ret # NO_ERROR
    /\ xdp[last.ifindex] = ProgId("XDP_INGRESS_PROG")
    /\ last.slot # -1
    /\ devmap[last.slot].ifindex = last.ifindex
    /\ jmptbl = OptimizedId
    /\ hook[last.ifindex]
    /\ tcIn[last.ifindex] = 0


\* the port iteration has read interface i without a failure, after an init
\* that recorded the program id of the pipeline
ReadOk(i) ==
    /\ pc \in {"listing", "list_done"}
    /\ list.initRet = NO_ERROR
    /\ i <= Len(visits)
    /\ visits[i].ret = 0

\* the XDP program that add_port attaches for the pipeline
OwnProg == IF IsXDP(nsProgs) THEN "XDP_INGRESS_PROG" ELSE "XDP_HELPER_PROG"

(* C28: after a successful add_port on an interface, with no later detach or
   other attach on it, a port iteration of the pipeline that reads the
   interface yields it, on the XDP path and on the TC-only path alike; the
   program id recorded by nikss_port_list_init is the id of the program that
   add_port attached.  After a following successful del_port, with no later
   attach, the iteration does not yield the interface. *)
C28_AttachListDetach ==
    \A i \in Ifs :
        /\ ifHist[i] = "added" =>
              /\ xdp[i] = ProgId(OwnProg)
              /\ ReadOk(i) => /\ list.xdp_prog_id = xdp[i]
                              /\ i \in Range(yielded)
        /\ ifHist[i] = "removed" =>
              /\ xdp[i] = 0
              /\ pc \in {"listing", "list_done"} => i \notin Range(yielded)

\* an interface was added and then removed with success: the iteration has
\* read it and has not yielded it
C28_Witness ==
    /\ pc = "list_done"
    /\ \E j \in Ifs : ifHist[j] = "removed" /\ ReadOk(j) /\ j \notin Range(yielded)

\* a TC-based pipeline: the iteration has yielded the interface added and
\* nothing else
C28_WitnessTc ==
    /\ pc = "list_done"
    /\ ~IsXDP(nsProgs)
    /\ \E i \in Ifs : ifHist[i] = "added" /\ ReadOk(i) /\ Range(yielded) = {i}

\* an XDP-based pipeline: the iteration has yielded the interface added
C28_WitnessXdp ==
    /\ pc = "list_done"
    /\ IsXDP(nsProgs)
    /\ \E i \in Ifs : ifHist[i] = "added" /\ ReadOk(i) /\ i \in Range(yielded)


(* C29, as claimed: for every content of the namespace,
   nikss_pipeline_is_TC_based answers true exactly when add_port takes the
   TC-only path for the pipeline, also when the namespace holds the helper
   together with an XDP ingress or egress program. *)
C29_FlavorTestsAgree ==
    /\ (pc = "ret" /\ last.op = "is_TC_based") =>
          (last.path = "tc" <=> ~IsXDP(nsProgs))
    /\ call.op = "add_port" =>
          (~call.isXDP <=> nikss_pipeline_is_TC_based(nsProgs))

\* the namespace holds the helper and the XDP ingress program: add_port took
\* the TC-only path on an interface and nikss_pipeline_is_TC_based answers false
C29_Witness ==
    /\ pc = "ret"
    /\ last.op = "is_TC_based"
    /\ last.path = "xdp"
    /\ {"XDP_HELPER_PROG", "XDP_INGRESS_PROG"} \subseteq nsProgs
    /\ \E i \in Ifs : ifHist[i] = "added" /\ xdp[i] = ProgId("XDP_HELPER_PROG")


\* a del_port on an interface is taken in this step
DelPortStep == pc = "idle" /\ pc' = "ret" /\ last'.op = "del_port" /\ last'.ifindex # 0

\* the step leaves the namespace, both tables and every other interface alone
DelPortFrame ==
    /\ nsProgs' = nsProgs
    /\ nsMaps' = nsMaps
    /\ devmap' = devmap
    /\ jmptbl' = jmptbl
    /\ \A j \in Ifs \ {last'.ifindex} :
          /\ xdp'[j] = xdp[j]
          /\ hook'[j] = hook[j]
          /\ tcIn'[j] = tcIn[j]
          /\ tcEg'[j] = tcEg[j]

\* a del_port that returns NO_ERROR has removed the XDP program the interface
\* had, whichever it was, and the hook is gone: destroyed, or it did not exist
DelPortEffect ==
    last'.ret = NO_ERROR =>
        /\ xdp'[last'.ifindex] = 0
        /\ ~hook'[last'.ifindex]
        /\ last'.hookErr = (IF hook[last'.ifindex] THEN NO_ERROR ELSE ENOENT)

(* C30: del_port acts on the interface only: it removes whatever XDP program
   and combined hook the interface has, also those of another pipeline, and
   it reads and writes nothing in the pipeline namespace, so the entries of
   the redirect table and of the jump table written by add_port stay; in every
   namespace it can remove what the interface carries. *)
C30_DelPortByInterface ==
    /\ [][DelPortStep => (DelPortFrame /\ DelPortEffect)]_vars
    /\ [](\A i \in Ifs : (pc = "idle" /\ ops < MaxOps) =>
             ENABLED (DelPort(i) /\ last'.ret = NO_ERROR /\ xdp'[i] = 0))

\* the namespace of the pipeline is empty, so the program and the hook on the
\* interface were another pipeline's: del_port has removed both
C30_Witness ==
    /\ pc = "ret"
    /\ last.op = "del_port" /\ last.ifindex # 0
    /\ nsProgs = {}
    /\ last.ret = NO_ERROR
    /\ last.hookErr = NO_ERROR
    /\ xdp[last.ifindex] = 0
    /\ ~hook[last.ifindex]

\* del_port has succeeded on an interface added on the XDP path: the entry of
\* the interface is still in the redirect table and the jump table is as it was
C30_WitnessTables ==
    /\ pc = "ret"
    /\ last.op = "del_port" /\ last.ifindex # 0
    /\ last.ret = NO_ERROR
    /\ ifHist[last.ifindex] = "removed"
    /\ devmap[last.ifindex % DevmapCap].ifindex = last.ifindex
    /\ jmptbl = OptimizedId

====
